---------------------------- MODULE Spec2Model ----------------------------
(***************************************************************************)
(* A model of the sanctions-law lookup service: the relational store with  *)
(* its full-text index and triggers, the seed transaction, the shared      *)
(* normalisation helpers and the query operations built on them.           *)
(*                                                                         *)
(* Text is modelled as a sequence of atoms.  An atom is one character, or  *)
(* a multi-letter chunk (an identifier such as "S1", or a word such as     *)
(* "AND") that behaves as a run of letters.  NULL is a reserved value.     *)
(***************************************************************************)
EXTENDS Integers, Sequences, FiniteSets, TLC

VARIABLES
  db,      \* the store: one sequence of rows per table, plus the FTS index
  call,    \* the operation last invoked, with its input
  result,  \* what that operation returned or threw
  seeded   \* whether the seed has run since the schema was created

vars == <<db, call, result, seeded>>

-----------------------------------------------------------------------------
(* Bounds of the model. *)

\* Longest query text, in atoms, drawn for the searches without filters, and
\* for the searches with filters.
MaxQueryLen == 3
MaxPlainQueryLen == 2

\* Provisions of one regime in the lookup store (above RELATED_LIMIT).
MaxRegimeProvisions == 7

\* Largest table drawn for the limit checks (above MAX_LIMIT so the cap bites).
MaxRows == 52

\* Largest requested limit drawn, in halves (so 103 is 51.5).
MaxLimitHalves == 103

\* Most records of one seed, and most records of one of its collections.
MaxSeedRecords == 3
MaxSeedCollection == 2

\* Most records of the seed an earlier build left in the store.
MaxPriorRecords == 2

\* Longest piece of a JSON text kept when it is cut short.
MaxCutLen == 8

\* Oldest last_updated drawn for a freshness row, in half days before as_of.
MaxAgeHalfDays == 490

-----------------------------------------------------------------------------
(* Text helpers. *)

NULL == <<"<null>">>

Min(a, b) == IF a <= b THEN a ELSE b
Max(a, b) == IF a >= b THEN a ELSE b

\* JS String.prototype.trim over the model's only whitespace atom.
RECURSIVE TrimLeft(_)
TrimLeft(s) == IF s # <<>> /\ Head(s) = " " THEN TrimLeft(Tail(s)) ELSE s

RECURSIVE TrimRight(_)
TrimRight(s) ==
  IF s # <<>> /\ s[Len(s)] = " " THEN TrimRight(SubSeq(s, 1, Len(s) - 1)) ELSE s

Trim(s) == TrimRight(TrimLeft(s))

RECURSIVE Concat(_)
Concat(ss) == IF ss = <<>> THEN <<>> ELSE Head(ss) \o Concat(Tail(ss))

\* All sequences over S of length at most n.
RECURSIVE SeqsUpTo(_, _)
SeqsUpTo(S, n) ==
  IF n = 0 THEN {<<>>}
  ELSE LET shorter == SeqsUpTo(S, n - 1)
       IN  shorter \cup {Append(s, x) : s \in shorter, x \in S}

\* Whether needle occurs in hay as a contiguous run.
IsSubstring(needle, hay) ==
  \E i \in 1..(Len(hay) - Len(needle) + 1) :
    SubSeq(hay, i, i + Len(needle) - 1) = needle

-----------------------------------------------------------------------------
(* sanctions-utils.ts: limits. *)

DEFAULT_LIMIT == 10
MAX_LIMIT == 50

\* A JS value passed as `limit`: t is its typeof ("undefined", "object" for
\* null, "string", "number"); a number is NaN, +-Infinity (inf = 1 / -1) or
\* the finite value h/2.
LimitValue(t, nan, inf, h) == [t |-> t, nan |-> nan, inf |-> inf, h |-> h]
Undefined == LimitValue("undefined", FALSE, 0, 0)
JsNull == LimitValue("object", FALSE, 0, 0)
JsString == LimitValue("string", FALSE, 0, 0)
NaN == LimitValue("number", TRUE, 0, 0)
Infinity(sign) == LimitValue("number", FALSE, sign, 0)
Halves(h) == LimitValue("number", FALSE, 0, h)

\* Extended integers [inf, n] for Math.floor / Math.max / Math.min.
Ext(n) == [inf |-> 0, n |-> n]
ExtLeq(a, b) ==
  \/ a.inf < b.inf
  \/ a.inf = b.inf /\ (a.inf # 0 \/ a.n <= b.n)
MathFloor(v) == IF v.inf # 0 THEN [inf |-> v.inf, n |-> 0] ELSE Ext(v.h \div 2)
\* Variant: the second argument, whatever the first.
MathMaxSecond(a, b) == b
MathMax(a, b) == IF ExtLeq(a, b) THEN b ELSE a
MathMin(a, b) == IF ExtLeq(a, b) THEN a ELSE b

\* Variant: the lower clamp is 0 instead of 1.
normalizeLimitFloorZero(limit, defaultValue) ==
  IF limit.t # "number" \/ limit.nan
  THEN defaultValue
  ELSE MathMin(MathMax(MathFloor(limit), Ext(0)), Ext(MAX_LIMIT)).n

normalizeLimit(limit, defaultValue) ==
  IF limit.t # "number" \/ limit.nan
  THEN defaultValue
  ELSE MathMin(MathMax(MathFloor(limit), Ext(1)), Ext(MAX_LIMIT)).n


-----------------------------------------------------------------------------
(* JSON text of the array and object columns (index.ts, sanctions-utils.ts). *)

RECURSIVE JsonEscape(_)
JsonEscape(s) ==
  IF s = <<>> THEN <<>>
  ELSE (IF Head(s) \in {"\"", "\\"} THEN <<"\\", Head(s)>> ELSE <<Head(s)>>)
         \o JsonEscape(Tail(s))

JsonQuote(s) == <<"\"">> \o JsonEscape(s) \o <<"\"">>

RECURSIVE JsonJoin(_)
JsonJoin(list) ==
  IF list = <<>> THEN <<>>
  ELSE IF Len(list) = 1 THEN JsonQuote(list[1])
  ELSE JsonQuote(list[1]) \o <<",">> \o JsonJoin(Tail(list))

\* JSON.stringify of an array of strings.
JsonStringify(list) == <<"[">> \o JsonJoin(list) \o <<"]">>

\* An object is the list of its members <<key, value>>, both strings.
RECURSIVE JsonJoinMembers(_)
JsonJoinMembers(object) ==
  IF object = <<>> THEN <<>>
  ELSE JsonQuote(object[1][1]) \o <<":">> \o JsonQuote(object[1][2])
         \o (IF Len(object) = 1 THEN <<>> ELSE <<",">> \o JsonJoinMembers(Tail(object)))

\* JSON.stringify of an object.
JsonStringifyObject(object) == <<"{">> \o JsonJoinMembers(object) \o <<"}">>

\* JSON values that are no objects: an array of strings, a string, a number
\* given by its digits.
JsArray(items) == <<"array", items>>
JsText(text) == <<"string", text>>
JsNumber(digits) == <<"number", digits>>

IsJs(type, value) == Len(value) = 2 /\ value[1] = type

\* JSON.stringify of a value.
JsonStringifyValue(value) ==
  IF IsJs("array", value) THEN JsonStringify(value[2])
  ELSE IF IsJs("string", value) THEN JsonQuote(value[2])
  ELSE IF IsJs("number", value) THEN value[2]
  ELSE JsonStringifyObject(value)

\* `!value` holds for null and undefined, and for the empty string and the
\* number 0; every object and every array is truthy.
optionalJson(value) ==
  IF value = NULL \/ value = JsText(<<>>) \/ value = JsNumber(<<"0">>)
  THEN NULL
  ELSE JsonStringifyValue(value)

-----------------------------------------------------------------------------
(* index.ts: SCHEMA_SQL.  The store after createSanctionsSchema. *)

EmptyStore ==
  [ sources              |-> <<>>,
    sanctions_regimes    |-> <<>>,
    provisions           |-> <<>>,
    provisions_fts       |-> {},
    provisions_seq       |-> 0,      \* sqlite_sequence of the AUTOINCREMENT rowid
    executive_orders     |-> <<>>,
    delisting_procedures |-> <<>>,
    export_controls      |-> <<>>,
    sanctions_case_law   |-> <<>>,
    source_freshness     |-> <<>> ]

createSanctionsSchema(d) == EmptyStore

Rows(table) == {table[i] : i \in DOMAIN table}
Column(table, col) == {table[i][col] : i \in DOMAIN table}

\* The columns declared NOT NULL, per table.
NotNullColumns(table) ==
  CASE table = "sources"              -> {"name", "priority"}
    [] table = "sanctions_regimes"    -> {"name", "jurisdiction"}
    [] table = "provisions"           -> {"source_id", "item_id", "title", "text", "kind", "url", "topics"}
    [] table = "executive_orders"     -> {"source_id", "order_number", "title", "summary"}
    [] table = "delisting_procedures" -> {"regime_id"}
    [] table = "export_controls"      -> {"source_id", "jurisdiction", "instrument", "section", "title", "summary", "focus"}
    [] table = "sanctions_case_law"   -> {"source_id", "court", "case_reference", "title", "summary", "keywords"}
    [] table = "source_freshness"     -> {"status", "check_frequency", "notes"}

NotNullOk(table, row) == \A c \in NotNullColumns(table) : row[c] # NULL

\* Variant: provisions carries no UNIQUE (source_id, item_id).
UniqueOkWithoutPair(d, table, row, except) ==
  CASE table = "provisions" -> TRUE
    [] table = "source_freshness" ->
         row.source_id = NULL \/ row.source_id \notin Column(d.source_freshness, "source_id")
    [] OTHER -> row.id = NULL \/ row.id \notin Column(d[table], "id")

\* TEXT PRIMARY KEY / UNIQUE: no stored row (other than `except`) has the same
\* key; a NULL key conflicts with nothing.
UniqueOk(d, table, row, except) ==
  CASE table = "provisions" ->
         \A i \in DOMAIN d.provisions :
           d.provisions[i].rowid # except =>
             ~(d.provisions[i].source_id = row.source_id /\ d.provisions[i].item_id = row.item_id)
    [] table = "source_freshness" ->
         row.source_id = NULL \/ row.source_id \notin Column(d.source_freshness, "source_id")
    [] OTHER -> row.id = NULL \/ row.id \notin Column(d[table], "id")

\* FOREIGN KEY ... REFERENCES, checked with foreign_keys = ON.  The schema
\* declares none for sanctions_regimes.delisting_procedure_id.
SourceFkOk(d, row) == row.source_id = NULL \/ row.source_id \in Column(d.sources, "id")
RegimeFkOk(d, row) == row.regime_id = NULL \/ row.regime_id \in Column(d.sanctions_regimes, "id")

ForeignKeysOk(d, table, row) ==
  CASE table \in {"sources", "sanctions_regimes"} -> TRUE
    [] table = "delisting_procedures" -> RegimeFkOk(d, row)
    [] table \in {"export_controls", "source_freshness"} -> SourceFkOk(d, row)
    [] OTHER -> SourceFkOk(d, row) /\ RegimeFkOk(d, row)

ConstraintsOk(d, table, row, except) ==
  NotNullOk(table, row) /\ UniqueOk(d, table, row, except) /\ ForeignKeysOk(d, table, row)

\* One row of the FTS5 table, as the triggers write it.
FtsEntry(row) ==
  [ rowid |-> row.rowid, source_id |-> row.source_id, item_id |-> row.item_id,
    title |-> row.title, text |-> row.text, parent |-> row.parent,
    regime_id |-> row.regime_id, kind |-> row.kind, topics |-> row.topics ]

\* Variant: the update trigger only removes the old entry.
provisions_au_delete_only(fts, old, new) == fts \ {FtsEntry(old)}

provisions_ai(fts, new) == fts \cup {FtsEntry(new)}
provisions_ad(fts, old) == fts \ {FtsEntry(old)}
provisions_au(fts, old, new) == (fts \ {FtsEntry(old)}) \cup {FtsEntry(new)}

-----------------------------------------------------------------------------
(* index.ts: the insert helpers of seedSanctionsDatabase.  Each returns      *)
(* [ok, db]: the statement either appends its row or fails and changes       *)
(* nothing.                                                                  *)

InsertRow(d, table, row) ==
  IF ConstraintsOk(d, table, row, 0)
  THEN [ok |-> TRUE, db |-> [d EXCEPT ![table] = Append(@, row)]]
  ELSE [ok |-> FALSE, db |-> d]

Bit(b) == IF b THEN 1 ELSE 0

insertSourceRecord(d, source) ==
  InsertRow(d, "sources",
    [ id |-> source.id, name |-> source.name, priority |-> source.priority,
      metadata |-> optionalJson(source.metadata) ])

insertRegimeRecord(d, regime) ==
  InsertRow(d, "sanctions_regimes",
    [ id |-> regime.id, name |-> regime.name, jurisdiction |-> regime.jurisdiction,
      cyber_related |-> Bit(regime.cyber_related),
      delisting_procedure_id |-> regime.delisting_procedure_id ])

\* The INSERT takes the next AUTOINCREMENT rowid and fires provisions_ai.
insertProvisionRecord(d, provision) ==
  LET row == [ rowid |-> d.provisions_seq + 1,
               source_id |-> provision.source_id, item_id |-> provision.item_id,
               title |-> provision.title, text |-> provision.text,
               parent |-> provision.parent, kind |-> provision.kind,
               regime_id |-> provision.regime_id, issued_on |-> provision.issued_on,
               url |-> provision.url, topics |-> JsonStringify(provision.topics),
               metadata |-> optionalJson(provision.metadata) ]
      r == InsertRow(d, "provisions", row)
  IN  IF r.ok
      THEN [ok |-> TRUE,
            db |-> [r.db EXCEPT !.provisions_seq = row.rowid,
                                !.provisions_fts = provisions_ai(@, row)]]
      ELSE r

insertExecutiveOrderRecord(d, executiveOrder) ==
  InsertRow(d, "executive_orders",
    [ id |-> executiveOrder.id, source_id |-> executiveOrder.source_id,
      regime_id |-> executiveOrder.regime_id, order_number |-> executiveOrder.order_number,
      title |-> executiveOrder.title, issued_on |-> executiveOrder.issued_on,
      summary |-> executiveOrder.summary,
      cyber_related |-> Bit(executiveOrder.cyber_related) ])

insertDelistingProcedureRecord(d, procedure) ==
  InsertRow(d, "delisting_procedures",
    [ id |-> procedure.id, regime_id |-> procedure.regime_id ])

insertExportControlRecord(d, control) ==
  InsertRow(d, "export_controls",
    [ id |-> control.id, source_id |-> control.source_id,
      jurisdiction |-> control.jurisdiction, instrument |-> control.instrument,
      section |-> control.section, title |-> control.title,
      summary |-> control.summary, focus |-> control.focus ])

insertCaseLawRecord(d, caseLaw) ==
  InsertRow(d, "sanctions_case_law",
    [ id |-> caseLaw.id, source_id |-> caseLaw.source_id, court |-> caseLaw.court,
      case_reference |-> caseLaw.case_reference, title |-> caseLaw.title,
      decision_date |-> caseLaw.decision_date, regime_id |-> caseLaw.regime_id,
      delisting_related |-> Bit(caseLaw.delisting_related),
      summary |-> caseLaw.summary, keywords |-> JsonStringify(caseLaw.keywords) ])

insertFreshnessRecord(d, freshness) ==
  InsertRow(d, "source_freshness",
    [ source_id |-> freshness.source_id, last_checked |-> freshness.last_checked,
      last_updated |-> freshness.last_updated,
      check_frequency |-> freshness.check_frequency,
      status |-> freshness.status, notes |-> freshness.notes ])

InsertRecord(d, stmt) ==
  CASE stmt.table = "sources"              -> insertSourceRecord(d, stmt.record)
    [] stmt.table = "sanctions_regimes"    -> insertRegimeRecord(d, stmt.record)
    [] stmt.table = "provisions"           -> insertProvisionRecord(d, stmt.record)
    [] stmt.table = "executive_orders"     -> insertExecutiveOrderRecord(d, stmt.record)
    [] stmt.table = "delisting_procedures" -> insertDelistingProcedureRecord(d, stmt.record)
    [] stmt.table = "export_controls"      -> insertExportControlRecord(d, stmt.record)
    [] stmt.table = "sanctions_case_law"   -> insertCaseLawRecord(d, stmt.record)
    [] stmt.table = "source_freshness"     -> insertFreshnessRecord(d, stmt.record)

Statements(table, records) ==
  [i \in DOMAIN records |-> [table |-> table, record |-> records[i]]]

\* The eight loops of the transaction body, in the order the code runs them.
SeedOrder ==
  << "sources", "sanctions_regimes", "provisions", "executive_orders",
     "delisting_procedures", "export_controls", "sanctions_case_law",
     "source_freshness" >>

SeedStatements(seed) ==
  Concat([k \in DOMAIN SeedOrder |-> Statements(SeedOrder[k], seed[SeedOrder[k]])])

\* Runs statements from..to one after another on the outcome so far; stops at
\* the first that throws. On failure `db` is the store as the failed
\* statement left it. The range is run as its first half, then its second.
RECURSIVE RunInserts(_, _, _, _)
RunInserts(run, stmts, from, to) ==
  IF ~run.ok \/ from > to
  THEN run
  ELSE IF from = to
  THEN LET r == InsertRecord(run.db, stmts[from])
       IN  IF r.ok
           THEN [ok |-> TRUE, db |-> r.db, failedAt |-> 0, table |-> "none"]
           ELSE [ok |-> FALSE, db |-> r.db, failedAt |-> from, table |-> stmts[from].table]
  ELSE LET middle == (from + to) \div 2
       IN  RunInserts(RunInserts(run, stmts, from, middle), stmts, middle + 1, to)

\* Variant: a failed body is not rolled back.
TransactionNoRollback(before, run) == run.db

\* db.transaction(fn)(): COMMIT when fn returns, ROLLBACK when it throws.
Transaction(before, run) == IF run.ok THEN run.db ELSE before

seedSanctionsDatabase(d, seed) ==
  LET stmts == SeedStatements(seed)
      run == RunInserts([ok |-> TRUE, db |-> d, failedAt |-> 0, table |-> "none"],
                        stmts, 1, Len(stmts))
  IN  [ok |-> run.ok, failedAt |-> run.failedAt, table |-> run.table,
       db |-> Transaction(d, run)]

\* summarizeSeed
summarizeSeed(seed) == [t \in {SeedOrder[k] : k \in DOMAIN SeedOrder} |-> Len(seed[t])]

-----------------------------------------------------------------------------
(* SQL statements on provisions outside the seed: they fire the update and  *)
(* delete triggers.                                                         *)

RowIndex(table, rowid) == CHOOSE i \in DOMAIN table : table[i].rowid = rowid

RemoveAt(seq, i) == SubSeq(seq, 1, i - 1) \o SubSeq(seq, i + 1, Len(seq))

\* UPDATE provisions SET title = ?, regime_id = ? WHERE rowid = ?
UpdateProvisionRow(d, rowid, title, regime_id) ==
  LET i == RowIndex(d.provisions, rowid)
      old == d.provisions[i]
      new == [old EXCEPT !.title = title, !.regime_id = regime_id]
  IN  IF ConstraintsOk(d, "provisions", new, rowid)
      THEN [ok |-> TRUE,
            db |-> [d EXCEPT !.provisions[i] = new,
                             !.provisions_fts = provisions_au(@, old, new)]]
      ELSE [ok |-> FALSE, db |-> d]

\* DELETE FROM provisions WHERE rowid = ?
DeleteProvisionRow(d, rowid) ==
  LET i == RowIndex(d.provisions, rowid)
      old == d.provisions[i]
  IN  [ok |-> TRUE,
       db |-> [d EXCEPT !.provisions = RemoveAt(@, i),
                        !.provisions_fts = provisions_ad(@, old)]]

-----------------------------------------------------------------------------
(* Case mapping and SQL text operators used by the query operations. *)

\* Atoms that stand for a run of several letters.
Chunks ==
  { "AND", "OR", "NOT", "NEAR", "and", "or", "not", "near", "title", "cyber",
    "S1", "S2", "R1", "D1", "I1", "I2", "I3", "E1", "X1", "C1", "EU", "US",
    "UN_", "EU_", "US_", "UK_", "UN", "UK", "INTL", "<null>" }

\* Lower case of an ASCII letter; every other atom is unchanged.
AsciiLower(c) ==
  CASE c = "A"    -> "a"
    [] c = "B"    -> "b"
    [] c = "AND"  -> "and"
    [] c = "OR"   -> "or"
    [] c = "NOT"  -> "not"
    [] c = "NEAR" -> "near"
    [] OTHER      -> c

\* SQLite LOWER(): folds ASCII letters only.
SqlLower(s) == [i \in DOMAIN s |-> AsciiLower(s[i])]

\* JS String.prototype.toLowerCase: folds letters outside ASCII as well.
toLowerCase(s) == [i \in DOMAIN s |-> IF s[i] = "É" THEN "é" ELSE AsciiLower(s[i])]

\* SQLite LIKE: % matches any run, _ any one character, and any other
\* pattern character matches itself, ASCII letters regardless of case.
RECURSIVE Like(_, _)
Like(pattern, text) ==
  IF pattern = <<>> THEN text = <<>>
  ELSE IF Head(pattern) = "%"
       THEN Like(Tail(pattern), text) \/ (text # <<>> /\ Like(pattern, Tail(text)))
       ELSE /\ text # <<>>
            /\ \/ Head(pattern) = "_" /\ Head(text) \notin Chunks
               \/ AsciiLower(Head(pattern)) = AsciiLower(Head(text))
            /\ Like(Tail(pattern), Tail(text))

\* Byte order of the atoms, for ORDER BY on text columns.
AtomOrder ==
  << " ", "\"", "%", "(", ")", "*", "+", ",", "-", ".",
     "0", "1", "2", "3", "4", "5", "6", "7", "8", "9", ":",
     "A", "AND", "B", "C1", "D1", "E1", "EU", "EU_", "I1", "I2", "I3", "INTL", "NEAR", "NOT", "OR",
     "R1", "S1", "S2", "UK", "UK_", "UN", "UN_", "US", "US_", "X1", "[", "\\", "]", "^", "_",
     "a", "and", "b", "c", "cyber", "k", "n", "near", "not", "or", "title", "u", "x",
     "{", "}", "É", "é" >>

AtomRanks ==
  [c \in {AtomOrder[r] : r \in DOMAIN AtomOrder} |->
     CHOOSE r \in DOMAIN AtomOrder : AtomOrder[r] = c]

AtomRank(c) == AtomRanks[c]

\* a < b for two TEXT values (BINARY collation).
TextLess(a, b) ==
  \E k \in 1..(Min(Len(a), Len(b)) + 1) :
    /\ SubSeq(a, 1, k - 1) = SubSeq(b, 1, k - 1)
    /\ IF k > Len(a) THEN k <= Len(b)
       ELSE k <= Len(b) /\ AtomRank(a[k]) < AtomRank(b[k])

\* The elements of seq at the indices in K, in index order.
Pick(seq, K) ==
  LET at == [r \in 1..Cardinality(K) |->
               CHOOSE i \in K : Cardinality({j \in K : j < i}) = r - 1]
  IN  [r \in 1..Cardinality(K) |-> seq[at[r]]]

\* The indices in K, smallest first.
Ascending(K) ==
  LET last == IF K = {} THEN 0 ELSE CHOOSE m \in K : \A j \in K : j <= m
  IN  SelectSeq([i \in 1..last |-> i], LAMBDA i : i \in K)

Reverse(seq) == [r \in 1..Len(seq) |-> seq[Len(seq) + 1 - r]]

\* ORDER BY: the indices in K sorted by Before.  Rows that compare equal come
\* in an order the statement does not fix; `tie` is the one the query plan
\* produces, storage order or its reverse.
OrderBy(K, Before(_, _), tie) ==
  LET RECURSIVE Merge(_, _)
      Merge(a, b) ==
        IF a = <<>> THEN b
        ELSE IF b = <<>> THEN a
        ELSE IF Before(Head(b), Head(a)) THEN <<Head(b)>> \o Merge(a, Tail(b))
        ELSE <<Head(a)>> \o Merge(Tail(a), b)
      RECURSIVE Sort(_)
      Sort(seq) ==
        IF Len(seq) <= 1 THEN seq
        ELSE LET middle == Len(seq) \div 2
             IN  Merge(Sort(SubSeq(seq, 1, middle)), Sort(SubSeq(seq, middle + 1, Len(seq))))
  IN  Sort(IF tie = "asc" THEN Ascending(K) ELSE Reverse(Ascending(K)))

\* Variant: the statement has no LIMIT clause.
NoLimit(seq, n) == seq

\* LIMIT n: a negative n means no limit.
Limit(seq, n) == IF n < 0 \/ n >= Len(seq) THEN seq ELSE SubSeq(seq, 1, n)

-----------------------------------------------------------------------------
(* sanctions-utils.ts: text helpers. *)

\* `value && value.trim().length > 0`
HasText(value) == value # NULL /\ Trim(value) # <<>>

\* Variant: only a missing value is falsy.
FalsyWhenMissing(value) == value = NULL

\* `!value` for a string that may be missing
Falsy(value) == value = NULL \/ value = <<>>

\* A missing list is modelled as the empty list: both normalise to [].
normalizeStringArray(values) ==
  LET trimmed == [i \in DOMAIN values |-> Trim(values[i])]
  IN  Pick(trimmed, { i \in DOMAIN values :
                        /\ trimmed[i] # <<>>
                        /\ \A j \in 1..(i - 1) : trimmed[j] # trimmed[i] })

escapeFts5Query(query) ==
  Trim(Concat([i \in DOMAIN query |->
                 IF query[i] \in {"(", ")", "^", "*", ":"}
                 THEN <<"\"", query[i], "\"">>
                 ELSE <<query[i]>>]))

sqlLikePattern(value) == <<"%">> \o toLowerCase(value) \o <<"%">>

-----------------------------------------------------------------------------
(* The FTS5 side of `provisions_fts MATCH ?`: the query lexer and grammar of  *)
(* SQLite's FTS5, and the unicode61 tokenizer the index is built with.       *)

Fts5Token(k, text, quoted) == [k |-> k, text |-> text, quoted |-> quoted]

Fts5Punctuation(c) ==
  CASE c = "(" -> "LP"    [] c = ")" -> "RP"
    [] c = "{" -> "LCP"   [] c = "}" -> "RCP"
    [] c = ":" -> "COLON" [] c = "," -> "COMMA"
    [] c = "+" -> "PLUS"  [] c = "*" -> "STAR"
    [] c = "-" -> "MINUS" [] c = "^" -> "CARET"
    [] OTHER   -> "NONE"

\* Letters, digits, _ and everything outside ASCII may start or continue a bareword.
Fts5NotBareword ==
  {" ", "\"", "(", ")", "{", "}", ":", ",", "+", "*", "-", "^", ".", "%", "[", "]", "\\"}

\* Position of the quote that closes a string whose content starts at j
\* ("" inside a string is an escaped quote); 0 when the string never ends.
RECURSIVE Fts5StringEnd(_, _)
Fts5StringEnd(s, j) ==
  IF j > Len(s) THEN 0
  ELSE IF s[j] # "\"" THEN Fts5StringEnd(s, j + 1)
  ELSE IF j < Len(s) /\ s[j + 1] = "\"" THEN Fts5StringEnd(s, j + 2)
  ELSE j

\* Length of the longest prefix of s that holds no atom of `stops`.
RECURSIVE RunLength(_, _)
RunLength(s, stops) ==
  IF s = <<>> \/ Head(s) \in stops THEN 0 ELSE 1 + RunLength(Tail(s), stops)

\* The token stream of a match expression; a lexical error ends it with an
\* ERROR token.
RECURSIVE Fts5Lex(_)
Fts5Lex(s) ==
  IF s = <<>> THEN <<>>
  ELSE LET c == Head(s)
       IN  IF c = " " THEN Fts5Lex(Tail(s))
           ELSE IF Fts5Punctuation(c) # "NONE"
           THEN <<Fts5Token(Fts5Punctuation(c), <<c>>, FALSE)>> \o Fts5Lex(Tail(s))
           ELSE IF c = "\""
           THEN LET e == Fts5StringEnd(s, 2)
                IN  IF e = 0
                    THEN <<Fts5Token("ERROR", <<c>>, FALSE)>>
                    ELSE <<Fts5Token("STRING", SubSeq(s, 2, e - 1), TRUE)>>
                           \o Fts5Lex(SubSeq(s, e + 1, Len(s)))
           ELSE IF c \in Fts5NotBareword
           THEN <<Fts5Token("ERROR", <<c>>, FALSE)>>
           ELSE LET n == RunLength(s, Fts5NotBareword)
                    word == SubSeq(s, 1, n)
                IN  <<Fts5Token(IF word \in {<<"AND">>, <<"OR">>, <<"NOT">>}
                                THEN word[1] ELSE "STRING", word, FALSE)>>
                      \o Fts5Lex(SubSeq(s, n + 1, Len(s)))

Fts5Kind(T, i) == IF i \in DOMAIN T THEN T[i].k ELSE "EOF"

Fts5Columns ==
  { <<"source_id">>, <<"item_id">>, <<"title">>, <<"text">>, <<"parent">>,
    <<"regime_id">>, <<"kind">>, <<"topics">> }

\* Each Fts5Parse... operator returns the position after what it recognised
\* from position i on, or 0 when the tokens do not fit the grammar.

\* phrase ::= STRING [STAR] (PLUS STRING [STAR])*
RECURSIVE Fts5ParsePhrase(_, _)
Fts5ParsePhrase(T, i) ==
  IF Fts5Kind(T, i) # "STRING" THEN 0
  ELSE LET j == IF Fts5Kind(T, i + 1) = "STAR" THEN i + 2 ELSE i + 1
       IN  IF Fts5Kind(T, j) = "PLUS" THEN Fts5ParsePhrase(T, j + 1) ELSE j

\* nearphrases ::= phrase+
RECURSIVE Fts5ParsePhrases(_, _)
Fts5ParsePhrases(T, i) ==
  LET j == Fts5ParsePhrase(T, i)
  IN  IF j # 0 /\ Fts5Kind(T, j) = "STRING" THEN Fts5ParsePhrases(T, j) ELSE j

\* nearset ::= phrase | CARET phrase | NEAR LP nearphrases [COMMA STRING] RP
Fts5ParseNearset(T, i) ==
  CASE Fts5Kind(T, i) = "CARET" -> Fts5ParsePhrase(T, i + 1)
    [] Fts5Kind(T, i) = "STRING" /\ Fts5Kind(T, i + 1) = "LP" ->
         IF T[i].quoted \/ T[i].text # <<"NEAR">> THEN 0
         ELSE LET j == Fts5ParsePhrases(T, i + 2)
                  k == IF j # 0 /\ Fts5Kind(T, j) = "COMMA"
                       THEN (IF Fts5Kind(T, j + 1) = "STRING" THEN j + 2 ELSE 0)
                       ELSE j
              IN  IF k # 0 /\ Fts5Kind(T, k) = "RP" THEN k + 1 ELSE 0
    [] OTHER -> Fts5ParsePhrase(T, i)

\* colsetlist ::= STRING+, each naming a column of the table
RECURSIVE Fts5ParseColumns(_, _)
Fts5ParseColumns(T, i) ==
  IF Fts5Kind(T, i) # "STRING" \/ SqlLower(T[i].text) \notin Fts5Columns THEN 0
  ELSE IF Fts5Kind(T, i + 1) = "STRING" THEN Fts5ParseColumns(T, i + 1) ELSE i + 1

\* colset ::= [MINUS] STRING | [MINUS] LCP colsetlist RCP, then COLON
Fts5ParseColset(T, i) ==
  LET m == IF Fts5Kind(T, i) = "MINUS" THEN i + 1 ELSE i
      e == IF Fts5Kind(T, m) = "LCP"
           THEN LET c == Fts5ParseColumns(T, m + 1)
                IN  IF c # 0 /\ Fts5Kind(T, c) = "RCP" THEN c + 1 ELSE 0
           ELSE IF Fts5Kind(T, m) = "STRING" /\ SqlLower(T[m].text) \in Fts5Columns
                THEN m + 1 ELSE 0
  IN  IF e # 0 /\ Fts5Kind(T, e) = "COLON" THEN e + 1 ELSE 0

Fts5StartsColset(T, i) ==
  \/ Fts5Kind(T, i) \in {"MINUS", "LCP"}
  \/ Fts5Kind(T, i) = "STRING" /\ Fts5Kind(T, i + 1) = "COLON"

\* cnearset ::= nearset | colset COLON nearset
Fts5ParseCnearset(T, i) ==
  IF Fts5StartsColset(T, i)
  THEN LET c == Fts5ParseColset(T, i)
       IN  IF c = 0 THEN 0 ELSE Fts5ParseNearset(T, c)
  ELSE Fts5ParseNearset(T, i)

\* exprlist ::= cnearset+   (implicit AND)
RECURSIVE Fts5ParseExprlist(_, _)
Fts5ParseExprlist(T, i) ==
  LET j == Fts5ParseCnearset(T, i)
  IN  IF j # 0 /\ Fts5Kind(T, j) \in {"STRING", "CARET", "MINUS", "LCP"}
      THEN Fts5ParseExprlist(T, j)
      ELSE j

\* expr ::= expr AND expr | expr OR expr | expr NOT expr
\*        | colset COLON LP expr RP | LP expr RP | exprlist
RECURSIVE Fts5ParseExpr(_, _)
Fts5ParseExpr(T, i) ==
  LET Group(p) == LET j == Fts5ParseExpr(T, p + 1)
                  IN  IF j # 0 /\ Fts5Kind(T, j) = "RP" THEN j + 1 ELSE 0
      c == IF Fts5StartsColset(T, i) THEN Fts5ParseColset(T, i) ELSE 0
      e == IF Fts5Kind(T, i) = "LP" THEN Group(i)
           ELSE IF c # 0 /\ Fts5Kind(T, c) = "LP" THEN Group(c)
           ELSE Fts5ParseExprlist(T, i)
  IN  IF e # 0 /\ Fts5Kind(T, e) \in {"AND", "OR", "NOT"}
      THEN Fts5ParseExpr(T, e + 1)
      ELSE e

\* The expression is accepted by MATCH: no lexical error and the whole
\* token stream is one expr.
Fts5WellFormed(T) ==
  /\ T # <<>>
  /\ \A i \in DOMAIN T : T[i].k # "ERROR"
  /\ Fts5ParseExpr(T, 1) = Len(T) + 1

\* unicode61: a token is a maximal run of letters and digits, folded to lower
\* case with diacritics removed.
Fts5Separators == Fts5NotBareword \cup {"_"}

Fts5Fold(s) == [i \in DOMAIN s |-> IF s[i] \in {"É", "é"} THEN "e" ELSE AsciiLower(s[i])]

RECURSIVE Fts5Tokenize(_)
Fts5Tokenize(s) ==
  IF s = <<>> THEN <<>>
  ELSE IF Head(s) \in Fts5Separators THEN Fts5Tokenize(Tail(s))
  ELSE LET n == RunLength(s, Fts5Separators)
       IN  <<Fts5Fold(SubSeq(s, 1, n))>> \o Fts5Tokenize(SubSeq(s, n + 1, Len(s)))

Fts5IndexedColumns == {"title", "text", "parent", "regime_id", "kind", "topics"}

\* Places where `phrase` starts in an indexed column of the entry.
Fts5Hits(phrase, entry) ==
  UNION { LET tokens == IF entry[col] = NULL THEN <<>> ELSE Fts5Tokenize(entry[col])
          IN  { <<col, i>> : i \in { n \in DOMAIN tokens :
                                       /\ n + Len(phrase) - 1 <= Len(tokens)
                                       /\ SubSeq(tokens, n, n + Len(phrase) - 1) = phrase } }
          : col \in Fts5IndexedColumns }

\* The phrases of a list of terms and quoted strings; a string without a
\* token is dropped from the implicit AND.  Column filters, prefix marks and
\* the AND / OR / NOT operators are parsed above but not evaluated here.
Fts5Phrases(T) ==
  LET phrases == [i \in DOMAIN T |-> IF T[i].k = "STRING" THEN Fts5Tokenize(T[i].text) ELSE <<>>]
  IN  Pick(phrases, {i \in DOMAIN T : phrases[i] # <<>>})

\* The entry matches: there is a phrase, and each phrase occurs in a column.
Fts5Match(phrases, entry) ==
  /\ phrases # <<>>
  /\ \A k \in DOMAIN phrases : Fts5Hits(phrases[k], entry) # {}

\* bm25() is smaller for a better match; modelled by the number of hits.
bm25(phrases, entry) ==
  0 - Cardinality(UNION { {<<k, hit>> : hit \in Fts5Hits(phrases[k], entry)} : k \in DOMAIN phrases })

-----------------------------------------------------------------------------
(* sanctions-utils.ts: reading the JSON columns back. *)

\* Position of the quote that closes a JSON string whose content starts at j.
RECURSIVE JsonStringEnd(_, _)
JsonStringEnd(s, j) ==
  IF j > Len(s) THEN 0
  ELSE IF s[j] = "\\" THEN JsonStringEnd(s, j + 2)
  ELSE IF s[j] = "\"" THEN j
  ELSE JsonStringEnd(s, j + 1)

RECURSIVE JsonUnescape(_)
JsonUnescape(s) ==
  IF s = <<>> THEN <<>>
  ELSE IF Head(s) = "\\" /\ Len(s) >= 2 THEN <<s[2]>> \o JsonUnescape(SubSeq(s, 3, Len(s)))
  ELSE <<Head(s)>> \o JsonUnescape(Tail(s))

\* The strings of `"..." , "..." ...` from position i to the end of s.
RECURSIVE JsonElements(_, _)
JsonElements(s, i) ==
  LET e == IF i <= Len(s) /\ s[i] = "\"" THEN JsonStringEnd(s, i + 1) ELSE 0
      item == JsonUnescape(SubSeq(s, i + 1, e - 1))
  IN  IF e = 0 THEN [ok |-> FALSE, list |-> <<>>]
      ELSE IF e = Len(s) THEN [ok |-> TRUE, list |-> <<item>>]
      ELSE IF s[e + 1] # "," THEN [ok |-> FALSE, list |-> <<>>]
      ELSE LET rest == JsonElements(s, e + 2)
           IN  [ok |-> rest.ok, list |-> <<item>> \o rest.list]

\* JSON.parse of an array of strings; any other text counts as malformed.
JsonParse(text) ==
  IF Len(text) < 2 \/ Head(text) # "[" \/ text[Len(text)] # "]"
  THEN [ok |-> FALSE, list |-> <<>>]
  ELSE IF Len(text) = 2 THEN [ok |-> TRUE, list |-> <<>>]
  ELSE JsonElements(SubSeq(text, 2, Len(text) - 1), 1)

\* The members of `"k":"v" , "k":"v" ...` from position i to the end of s.
RECURSIVE JsonMembers(_, _)
JsonMembers(s, i) ==
  LET ke == IF i <= Len(s) /\ s[i] = "\"" THEN JsonStringEnd(s, i + 1) ELSE 0
      ve == IF ke # 0 /\ ke + 2 <= Len(s) /\ s[ke + 1] = ":" /\ s[ke + 2] = "\""
            THEN JsonStringEnd(s, ke + 3) ELSE 0
      member == << JsonUnescape(SubSeq(s, i + 1, ke - 1)),
                   JsonUnescape(SubSeq(s, ke + 3, ve - 1)) >>
  IN  IF ve = 0 THEN [ok |-> FALSE, list |-> <<>>]
      ELSE IF ve = Len(s) THEN [ok |-> TRUE, list |-> <<member>>]
      ELSE IF s[ve + 1] # "," THEN [ok |-> FALSE, list |-> <<>>]
      ELSE LET rest == JsonMembers(s, ve + 2)
           IN  [ok |-> rest.ok, list |-> <<member>> \o rest.list]

\* JSON.parse of an object of strings; any other text counts as malformed.
JsonParseObject(text) ==
  IF Len(text) < 2 \/ Head(text) # "{" \/ text[Len(text)] # "}"
  THEN [ok |-> FALSE, list |-> <<>>]
  ELSE IF Len(text) = 2 THEN [ok |-> TRUE, list |-> <<>>]
  ELSE JsonMembers(SubSeq(text, 2, Len(text) - 1), 1)

\* JSON.parse of an object, an array of strings, a string or a whole number;
\* any other text counts as malformed.
JsonParseValue(text) ==
  IF Head(text) = "{"
  THEN LET object == JsonParseObject(text)
       IN  [ok |-> object.ok, value |-> object.list]
  ELSE IF Head(text) = "["
  THEN LET array == JsonParse(text)
       IN  [ok |-> array.ok, value |-> JsArray(array.list)]
  ELSE IF Head(text) = "\""
  THEN [ok |-> JsonStringEnd(text, 2) = Len(text),
        value |-> JsText(JsonUnescape(SubSeq(text, 2, Len(text) - 1)))]
  ELSE [ok |-> /\ \A i \in DOMAIN text :
                    text[i] \in {"0", "1", "2", "3", "4", "5", "6", "7", "8", "9"}
               /\ (Len(text) = 1 \/ Head(text) # "0"),
        value |-> JsNumber(text)]

\* The value of a JSON column: null for NULL, the empty text and text that
\* does not parse; whatever JSON.parse gives otherwise.
parseJsonField(value) ==
  IF value = NULL \/ value = <<>> THEN NULL
  ELSE LET parsed == JsonParseValue(value)
       IN  IF parsed.ok THEN parsed.value ELSE NULL

parseJsonArray(value) ==
  IF value = NULL \/ value = <<>> THEN <<>>
  ELSE LET parsed == JsonParse(value)
       IN  IF ~parsed.ok THEN <<>>
           ELSE Pick(parsed.list, {i \in DOMAIN parsed.list : parsed.list[i] # <<>>})

-----------------------------------------------------------------------------
(* The query operations.  Each takes the store, its input and the order the *)
(* query plan gives to rows with equal sort keys, and hands back the value  *)
(* it returns or the error it throws, with the number of statements it ran. *)

Returned(value, queries) == [error |-> NULL, value |-> value, queries |-> queries]
Thrown(message, queries) == [error |-> message, value |-> <<>>, queries |-> queries]

\* A joined column: the value of `col` in the row of `table` with this id,
\* NULL when no row has it (LEFT JOIN).
Joined(table, id, col) ==
  IF id # NULL /\ \E i \in DOMAIN table : table[i].id = id
  THEN table[CHOOSE i \in DOMAIN table : table[i].id = id][col]
  ELSE NULL

Coalesce(value, other) == IF value = NULL THEN other ELSE value

\* ORDER BY issued_on DESC, item_id ASC   (a NULL issued_on, 0, comes last)
NewestFirst(p, i, j) ==
  \/ p[i].issued_on > p[j].issued_on
  \/ p[i].issued_on = p[j].issued_on /\ TextLess(p[i].item_id, p[j].item_id)

\* ORDER BY jurisdiction, name of the regime rows a and b
RegimeBefore(a, b) ==
  \/ TextLess(a.jurisdiction, b.jurisdiction)
  \/ a.jurisdiction = b.jurisdiction /\ TextLess(a.name, b.name)

ProvisionSummary(row) ==
  [ source_id |-> row.source_id, item_id |-> row.item_id, title |-> row.title,
    kind |-> row.kind, regime_id |-> row.regime_id, official_url |-> row.url ]

searchSanctionsLaw(d, input, tie) ==
  IF ~HasText(input.query) THEN Returned(<<>>, 0)
  ELSE
    LET safeQuery == escapeFts5Query(Trim(input.query))
        limit == normalizeLimit(input.limit, DEFAULT_LIMIT)
        sourceIds == normalizeStringArray(input.source_ids)
        jurisdictions == normalizeStringArray(input.jurisdictions)
        topics == LET t == normalizeStringArray(input.topics)
                  IN  [k \in DOMAIN t |-> toLowerCase(t[k])]
        tokens == Fts5Lex(safeQuery)
        phrases == Fts5Phrases(tokens)
        p == d.provisions
        Where(i) ==
          /\ \E e \in d.provisions_fts : e.rowid = p[i].rowid /\ Fts5Match(phrases, e)
          /\ \E s \in DOMAIN d.sources : d.sources[s].id = p[i].source_id
          /\ sourceIds # <<>> => p[i].source_id \in Rows(sourceIds)
          /\ jurisdictions # <<>> =>
               Coalesce(Joined(d.sanctions_regimes, p[i].regime_id, "jurisdiction"), <<>>)
                 \in Rows(jurisdictions)
          /\ HasText(input.regime_id) => p[i].regime_id = Trim(input.regime_id)
          /\ topics # <<>> =>
               \E k \in DOMAIN topics : Like(sqlLikePattern(topics[k]), SqlLower(p[i].topics))
        matched == {i \in DOMAIN p : Where(i)}
        relevance == [i \in matched |->
                        bm25(phrases, CHOOSE e \in d.provisions_fts : e.rowid = p[i].rowid)]
        rows == Limit(OrderBy(matched, LAMBDA i, j : relevance[i] < relevance[j], tie), limit)
    IN  IF safeQuery = <<>> THEN Returned(<<>>, 0)
        ELSE IF ~Fts5WellFormed(tokens) THEN Thrown(<<"fts5: syntax error">>, 1)
        ELSE Returned(
               [k \in DOMAIN rows |->
                  [ source_id |-> p[rows[k]].source_id,
                    source_name |-> Joined(d.sources, p[rows[k]].source_id, "name"),
                    item_id |-> p[rows[k]].item_id, kind |-> p[rows[k]].kind,
                    title |-> p[rows[k]].title, relevance |-> relevance[rows[k]],
                    regime_id |-> p[rows[k]].regime_id,
                    regime_name |-> Joined(d.sanctions_regimes, p[rows[k]].regime_id, "name"),
                    issued_on |-> p[rows[k]].issued_on, official_url |-> p[rows[k]].url,
                    topics |-> parseJsonArray(p[rows[k]].topics) ]],
               1)

PROVISION_PREVIEW_LIMIT == 5

getProvisionPreview(d, regimeId, tie) ==
  LET p == d.provisions
      rows == Limit(OrderBy({i \in DOMAIN p : p[i].regime_id = regimeId},
                            LAMBDA i, j : NewestFirst(p, i, j), tie),
                    PROVISION_PREVIEW_LIMIT)
  IN  [k \in DOMAIN rows |-> ProvisionSummary(p[rows[k]])]

getSanctionsRegime(d, input, tie) ==
  LET r == d.sanctions_regimes
      Where(i) ==
        /\ HasText(input.regime_id) => r[i].id = Trim(input.regime_id)
        /\ HasText(input.name) => Like(sqlLikePattern(Trim(input.name)), SqlLower(r[i].name))
        /\ HasText(input.jurisdiction) => r[i].jurisdiction = Trim(input.jurisdiction)
      limit == normalizeLimit(input.limit,
                              IF ~Falsy(input.regime_id) THEN 1 ELSE 10)
      rows == Limit(OrderBy({i \in DOMAIN r : Where(i)},
                            LAMBDA i, j : RegimeBefore(r[i], r[j]), tie), limit)
  IN  Returned(
        [k \in DOMAIN rows |->
           [ id |-> r[rows[k]].id, name |-> r[rows[k]].name,
             jurisdiction |-> r[rows[k]].jurisdiction,
             cyber_related |-> (r[rows[k]].cyber_related = 1),
             delisting_procedure_id |-> r[rows[k]].delisting_procedure_id,
             provision_count |->
               Cardinality({i \in DOMAIN d.provisions : d.provisions[i].regime_id = r[rows[k]].id}),
             case_law_count |->
               Cardinality({i \in DOMAIN d.sanctions_case_law :
                              d.sanctions_case_law[i].regime_id = r[rows[k]].id}),
             provisions |-> IF input.include_provisions
                            THEN getProvisionPreview(d, r[rows[k]].id, tie)
                            ELSE <<>> ]],
        1 + (IF input.include_provisions THEN Len(rows) ELSE 0))

getDelistingProcedure(d, input, tie) ==
  LET dp == d.delisting_procedures
      Regime(i) == CHOOSE x \in Rows(d.sanctions_regimes) : x.id = dp[i].regime_id
      Where(i) ==
        /\ \E x \in Rows(d.sanctions_regimes) : x.id = dp[i].regime_id
        /\ HasText(input.procedure_id) => dp[i].id = Trim(input.procedure_id)
        /\ HasText(input.regime_id) => dp[i].regime_id = Trim(input.regime_id)
      limit == normalizeLimit(input.limit, 10)
      rows == Limit(OrderBy({i \in DOMAIN dp : Where(i)},
                            LAMBDA i, j : RegimeBefore(Regime(i), Regime(j)), tie), limit)
  IN  Returned(
        [k \in DOMAIN rows |->
           [ id |-> dp[rows[k]].id, regime_id |-> dp[rows[k]].regime_id,
             regime_name |-> Regime(rows[k]).name,
             jurisdiction |-> Regime(rows[k]).jurisdiction ]],
        1)

getExportControl(d, input, tie) ==
  LET ec == d.export_controls
      Where(i) ==
        /\ \E s \in Rows(d.sources) : s.id = ec[i].source_id
        /\ HasText(input.jurisdiction) => ec[i].jurisdiction = Trim(input.jurisdiction)
        /\ HasText(input.section) =>
             Like(sqlLikePattern(Trim(input.section)), SqlLower(ec[i].section))
        /\ HasText(input.query) =>
             LET queryPattern == sqlLikePattern(Trim(input.query))
             IN  \/ Like(queryPattern, SqlLower(ec[i].title))
                 \/ Like(queryPattern, SqlLower(ec[i].summary))
                 \/ Like(queryPattern, SqlLower(ec[i].focus))
      limit == normalizeLimit(input.limit, 10)
      Before(i, j) ==
        \/ TextLess(ec[i].jurisdiction, ec[j].jurisdiction)
        \/ /\ ec[i].jurisdiction = ec[j].jurisdiction
           /\ \/ TextLess(ec[i].instrument, ec[j].instrument)
              \/ ec[i].instrument = ec[j].instrument /\ TextLess(ec[i].section, ec[j].section)
      rows == Limit(OrderBy({i \in DOMAIN ec : Where(i)}, Before, tie), limit)
  IN  Returned(
        [k \in DOMAIN rows |->
           [ id |-> ec[rows[k]].id, source_id |-> ec[rows[k]].source_id,
             source_name |-> Joined(d.sources, ec[rows[k]].source_id, "name"),
             jurisdiction |-> ec[rows[k]].jurisdiction, instrument |-> ec[rows[k]].instrument,
             section |-> ec[rows[k]].section, title |-> ec[rows[k]].title,
             summary |-> ec[rows[k]].summary, focus |-> ec[rows[k]].focus ]],
        1)

\* input.delisting_related is <<"true">>, <<"false">> or NULL (not a boolean).
searchSanctionsCaseLaw(d, input, tie) ==
  LET c == d.sanctions_case_law
      Where(i) ==
        /\ HasText(input.query) =>
             LET pattern == sqlLikePattern(Trim(input.query))
             IN  \/ Like(pattern, SqlLower(c[i].case_reference))
                 \/ Like(pattern, SqlLower(c[i].title))
                 \/ Like(pattern, SqlLower(c[i].summary))
                 \/ Like(pattern, SqlLower(c[i].keywords))
        /\ HasText(input.regime_id) => c[i].regime_id = Trim(input.regime_id)
        /\ HasText(input.court) => Like(sqlLikePattern(Trim(input.court)), SqlLower(c[i].court))
        /\ input.delisting_related # NULL =>
             c[i].delisting_related = Bit(input.delisting_related = <<"true">>)
      limit == normalizeLimit(input.limit, 10)
      rows == Limit(OrderBy({i \in DOMAIN c : Where(i)},
                            LAMBDA i, j : c[i].decision_date > c[j].decision_date, tie), limit)
  IN  Returned(
        [k \in DOMAIN rows |->
           [ id |-> c[rows[k]].id, source_id |-> c[rows[k]].source_id,
             court |-> c[rows[k]].court, case_reference |-> c[rows[k]].case_reference,
             title |-> c[rows[k]].title, decision_date |-> c[rows[k]].decision_date,
             regime_id |-> c[rows[k]].regime_id,
             regime_name |-> Joined(d.sanctions_regimes, c[rows[k]].regime_id, "name"),
             delisting_related |-> (c[rows[k]].delisting_related = 1),
             summary |-> c[rows[k]].summary,
             keywords |-> parseJsonArray(c[rows[k]].keywords) ]],
        1)

\* Variant: the prefix UK_ is not recognised.
inferJurisdictionWithoutUK(sourceId) ==
  CASE sourceId # <<>> /\ Head(sourceId) = "UN_" -> <<"UN">>
    [] sourceId # <<>> /\ Head(sourceId) = "EU_" -> <<"EU">>
    [] sourceId # <<>> /\ Head(sourceId) = "US_" -> <<"US">>
    [] OTHER -> <<"INTL">>

inferJurisdiction(sourceId) ==
  CASE sourceId # <<>> /\ Head(sourceId) = "UN_" -> <<"UN">>
    [] sourceId # <<>> /\ Head(sourceId) = "EU_" -> <<"EU">>
    [] sourceId # <<>> /\ Head(sourceId) = "US_" -> <<"US">>
    [] sourceId # <<>> /\ Head(sourceId) = "UK_" -> <<"UK">>
    [] OTHER -> <<"INTL">>

checkCyberSanctions(d, input, tie) ==
  LET limit == normalizeLimit(input.limit, 10)
      jurisdictions ==
        normalizeStringArray(IF ~Falsy(input.jurisdiction)
                             THEN <<input.jurisdiction>> ELSE <<>>)
      queryTerm == IF input.query = NULL THEN <<>> ELSE Trim(input.query)
      Filtered(text1, text2) ==
        queryTerm # <<>> =>
          \/ Like(sqlLikePattern(queryTerm), SqlLower(text1))
          \/ Like(sqlLikePattern(queryTerm), SqlLower(text2))
      Applies(jurisdiction) == jurisdictions = <<>> \/ jurisdiction \in Rows(jurisdictions)
      r == d.sanctions_regimes
      regimes == Limit(OrderBy({i \in DOMAIN r : r[i].cyber_related = 1},
                               LAMBDA i, j : RegimeBefore(r[i], r[j]), tie), limit)
      eo == d.executive_orders
      executiveOrders ==
        Limit(OrderBy({i \in DOMAIN eo : eo[i].cyber_related = 1 /\ Filtered(eo[i].title, eo[i].summary)},
                      LAMBDA i, j : eo[i].issued_on > eo[j].issued_on, tie), limit)
      p == d.provisions
      provisions ==
        Limit(OrderBy({i \in DOMAIN p : /\ Like(sqlLikePattern(<<"cyber">>), SqlLower(p[i].topics))
                                        /\ Filtered(p[i].title, p[i].text)},
                      LAMBDA i, j : NewestFirst(p, i, j), tie), limit)
      JurisdictionOf(row) ==
        Coalesce(Joined(r, row.regime_id, "jurisdiction"), inferJurisdiction(row.source_id))
  IN  Returned(
        [ matched_query |-> IF queryTerm # <<>> THEN queryTerm ELSE NULL,
          jurisdictions_applied |-> jurisdictions,
          regimes |->
            LET kept == Pick(regimes, {k \in DOMAIN regimes : Applies(r[regimes[k]].jurisdiction)})
            IN  [k \in DOMAIN kept |->
                   [ regime_id |-> r[kept[k]].id, name |-> r[kept[k]].name,
                     jurisdiction |-> r[kept[k]].jurisdiction ]],
          executive_orders |->
            LET kept == Pick(executiveOrders,
                             {k \in DOMAIN executiveOrders : Applies(JurisdictionOf(eo[executiveOrders[k]]))})
            IN  [k \in DOMAIN kept |->
                   [ id |-> eo[kept[k]].id, order_number |-> eo[kept[k]].order_number,
                     title |-> eo[kept[k]].title, issued_on |-> eo[kept[k]].issued_on,
                     jurisdiction |-> JurisdictionOf(eo[kept[k]]) ]],
          provisions |->
            LET kept == Pick(provisions,
                             {k \in DOMAIN provisions : Applies(JurisdictionOf(p[provisions[k]]))})
            IN  [k \in DOMAIN kept |->
                   [ source_id |-> p[kept[k]].source_id, item_id |-> p[kept[k]].item_id,
                     title |-> p[kept[k]].title, regime_id |-> p[kept[k]].regime_id,
                     jurisdiction |-> JurisdictionOf(p[kept[k]]),
                     topics |-> parseJsonArray(p[kept[k]].topics) ]] ],
        3)

RELATED_LIMIT == 5

\* get-provision.ts: getRelatedProvisions
getRelatedProvisions(d, sourceId, itemId, regimeId, topics, tie) ==
  LET p == d.provisions
      Other(i) == ~(p[i].source_id = sourceId /\ p[i].item_id = itemId)
      Related(K) ==
        LET rows == Limit(OrderBy(K, LAMBDA i, j : NewestFirst(p, i, j), tie), RELATED_LIMIT)
        IN  [k \in DOMAIN rows |-> ProvisionSummary(p[rows[k]])]
  IN  IF ~Falsy(regimeId)
      THEN [rows |-> Related({i \in DOMAIN p : p[i].regime_id = regimeId /\ Other(i)}),
            queries |-> 1]
      ELSE IF topics = <<>> THEN [rows |-> <<>>, queries |-> 0]
      ELSE [rows |-> Related({i \in DOMAIN p :
                                /\ Like(sqlLikePattern(toLowerCase(topics[1])), SqlLower(p[i].topics))
                                /\ Other(i)}),
            queries |-> 1]

\* The value of a lookup that found no row.
NotFound == [found |-> FALSE]

getProvision(d, input, tie) ==
  LET sourceId == IF input.source_id = NULL THEN NULL ELSE Trim(input.source_id)
      itemId == IF input.item_id = NULL THEN NULL ELSE Trim(input.item_id)
      p == d.provisions
      found == {i \in DOMAIN p :
                  /\ p[i].source_id = sourceId /\ p[i].item_id = itemId
                  /\ \E s \in Rows(d.sources) : s.id = p[i].source_id}
      row == p[IF tie = "asc" THEN CHOOSE i \in found : \A j \in found : i <= j
                              ELSE CHOOSE i \in found : \A j \in found : i >= j]
      topics == parseJsonArray(row.topics)
      related == getRelatedProvisions(d, row.source_id, row.item_id, row.regime_id, topics, tie)
  IN  IF Falsy(sourceId) THEN Thrown(<<"source_id is required">>, 0)
      ELSE IF Falsy(itemId) THEN Thrown(<<"item_id is required">>, 0)
      ELSE IF found = {} THEN Returned(NotFound, 1)
      ELSE Returned(
             [ found |-> TRUE, source_id |-> row.source_id,
               source_name |-> Joined(d.sources, row.source_id, "name"),
               item_id |-> row.item_id, title |-> row.title, text |-> row.text,
               parent |-> row.parent, kind |-> row.kind, regime_id |-> row.regime_id,
               regime_name |-> Joined(d.sanctions_regimes, row.regime_id, "name"),
               issued_on |-> row.issued_on, official_url |-> row.url,
               topics |-> topics, metadata |-> parseJsonField(row.metadata),
               related |-> IF input.include_related THEN related.rows ELSE <<>>,
               has_related |-> input.include_related ],
             1 + (IF input.include_related THEN related.queries ELSE 0))

\* Variant: the fallback takes provisions of any kind.
getRelatedProvisionsOfOrderAnyKind(d, sourceId, regimeId, tie) ==
  LET p == d.provisions
      K == IF ~Falsy(regimeId)
           THEN {i \in DOMAIN p : p[i].regime_id = regimeId}
           ELSE {i \in DOMAIN p : p[i].source_id = sourceId}
      rows == Limit(OrderBy(K, LAMBDA i, j : NewestFirst(p, i, j), tie), RELATED_LIMIT)
  IN  [k \in DOMAIN rows |-> ProvisionSummary(p[rows[k]])]

\* get-executive-order.ts: getRelatedProvisions
getRelatedProvisionsOfOrder(d, sourceId, regimeId, tie) ==
  LET p == d.provisions
      K == IF ~Falsy(regimeId)
           THEN {i \in DOMAIN p : p[i].regime_id = regimeId}
           ELSE {i \in DOMAIN p : /\ p[i].source_id = sourceId
                                  /\ p[i].kind \in {<<"executive_order_section">>, <<"guidance">>}}
      rows == Limit(OrderBy(K, LAMBDA i, j : NewestFirst(p, i, j), tie), RELATED_LIMIT)
  IN  [k \in DOMAIN rows |-> ProvisionSummary(p[rows[k]])]

getExecutiveOrder(d, input, tie) ==
  LET orderNumber == IF input.order_number = NULL THEN NULL ELSE Trim(input.order_number)
      eo == d.executive_orders
      found == {i \in DOMAIN eo :
                  /\ eo[i].order_number = orderNumber \/ eo[i].id = orderNumber
                  /\ \E s \in Rows(d.sources) : s.id = eo[i].source_id}
      row == eo[IF tie = "asc" THEN CHOOSE i \in found : \A j \in found : i <= j
                               ELSE CHOOSE i \in found : \A j \in found : i >= j]
  IN  IF Falsy(orderNumber) THEN Thrown(<<"order_number is required">>, 0)
      ELSE IF found = {} THEN Returned(NotFound, 1)
      ELSE Returned(
             [ found |-> TRUE, id |-> row.id, source_id |-> row.source_id,
               source_name |-> Joined(d.sources, row.source_id, "name"),
               regime_id |-> row.regime_id,
               regime_name |-> Joined(d.sanctions_regimes, row.regime_id, "name"),
               order_number |-> row.order_number, title |-> row.title,
               issued_on |-> row.issued_on, summary |-> row.summary,
               cyber_related |-> (row.cyber_related = 1),
               related_provisions |->
                 IF input.include_related_provisions
                 THEN getRelatedProvisionsOfOrder(d, row.source_id, row.regime_id, tie)
                 ELSE <<>>,
               has_related_provisions |-> input.include_related_provisions ],
             1 + Bit(input.include_related_provisions))

-----------------------------------------------------------------------------
(* check-data-freshness.ts and the date helpers of sanctions-utils.ts.      *)
(* A date text either parses to an instant, counted in half days, or does   *)
(* not parse; an input date may also be missing.                            *)

DateText(at) == [kind |-> "date", at |-> at]
GarbageDate == [kind |-> "garbage", at |-> 0]
MissingDate == [kind |-> "missing", at |-> 0]

\* Number.POSITIVE_INFINITY when either date does not parse.
ageInDays(fromDate, toDate) ==
  IF fromDate.kind # "date" \/ toDate.kind # "date"
  THEN [inf |-> 1, n |-> 0]
  ELSE Ext(Max(0, (toDate.at - fromDate.at) \div 2))

frequencyThresholdDays(frequency) ==
  CASE frequency = <<"daily">>     -> 30
    [] frequency = <<"weekly">>    -> 60
    [] frequency = <<"monthly">>   -> 120
    [] frequency = <<"on_change">> -> 90
    [] OTHER                       -> 30

\* Variant: the boundaries are exclusive.
evaluateStatusExclusive(ageDays, expectedMaxAgeDays) ==
  IF ageDays.inf # 0 THEN <<"planned">>
  ELSE IF ageDays.n < expectedMaxAgeDays THEN <<"fresh">>
  ELSE IF ageDays.n < expectedMaxAgeDays * 2 THEN <<"warning">>
  ELSE <<"stale">>

evaluateStatus(ageDays, expectedMaxAgeDays) ==
  IF ageDays.inf # 0 THEN <<"planned">>
  ELSE IF ageDays.n <= expectedMaxAgeDays THEN <<"fresh">>
  ELSE IF ageDays.n <= expectedMaxAgeDays * 2 THEN <<"warning">>
  ELSE <<"stale">>

\* Variant: only the fresh entries are counted.
totalsOfFreshOnly(entries) ==
  [s \in {"fresh", "warning", "stale", "planned"} |->
     IF s = "fresh"
     THEN Cardinality({k \in DOMAIN entries : entries[k].evaluated_status = <<s>>})
     ELSE 0]

\* entries.reduce: each entry adds one to the total of its evaluated status.
totals(entries) ==
  [s \in {"fresh", "warning", "stale", "planned"} |->
     Cardinality({k \in DOMAIN entries : entries[k].evaluated_status = <<s>>})]

\* `today` is the date new Date() gives when as_of is missing.
checkDataFreshness(d, input, today) ==
  LET asOf == IF input.as_of.kind = "missing" THEN today ELSE input.as_of
      maxAgeDays ==
        IF input.max_age_days.t # "number" THEN [nan |-> FALSE, v |-> Ext(45)]
        ELSE IF input.max_age_days.nan THEN [nan |-> TRUE, v |-> Ext(0)]
        ELSE [nan |-> FALSE, v |-> MathMax(Ext(1), MathFloor(input.max_age_days))]
      sf == d.source_freshness
      rows == OrderBy({i \in DOMAIN sf : \E s \in Rows(d.sources) : s.id = sf[i].source_id},
                      LAMBDA i, j : TextLess(sf[i].source_id, sf[j].source_id), "asc")
      Entry(row) ==
        LET expectedMaxAgeDays == frequencyThresholdDays(row.check_frequency)
            ageDays == ageInDays(row.last_updated, asOf)
        IN  [ source_id |-> row.source_id,
              source_name |-> Joined(d.sources, row.source_id, "name"),
              check_frequency |-> row.check_frequency,
              last_checked |-> row.last_checked, last_updated |-> row.last_updated,
              declared_status |-> row.status,
              expected_max_age_days |-> expectedMaxAgeDays,
              age_days |-> ageDays,
              evaluated_status |-> evaluateStatus(ageDays, expectedMaxAgeDays),
              is_within_max_age |-> ~maxAgeDays.nan /\ ExtLeq(ageDays, maxAgeDays.v),
              notes |-> row.notes ]
      mapped == [k \in DOMAIN rows |-> Entry(sf[rows[k]])]
      entries == Pick(mapped, {k \in DOMAIN mapped :
                                 ~Falsy(input.status) =>
                                   mapped[k].evaluated_status = input.status})
  IN  Returned(
        [ as_of |-> asOf, max_age_days |-> maxAgeDays,
          totals |-> totals(entries),
          entries |-> entries ],
        1)

-----------------------------------------------------------------------------
(* shared-tools.ts: callTool, over the operations modelled here. *)

\* The arguments of each tool with every optional property left out.
NoArguments(name) ==
  CASE name = "search_sanctions_law" ->
         [ query |-> NULL, source_ids |-> <<>>, jurisdictions |-> <<>>, regime_id |-> NULL,
           topics |-> <<>>, limit |-> Undefined ]
    [] name = "get_provision" ->
         [ source_id |-> NULL, item_id |-> NULL, include_related |-> FALSE ]
    [] name = "get_sanctions_regime" ->
         [ regime_id |-> NULL, name |-> NULL, jurisdiction |-> NULL,
           include_provisions |-> FALSE, limit |-> Undefined ]
    [] name = "get_executive_order" ->
         [ order_number |-> NULL, include_related_provisions |-> FALSE ]
    [] name = "check_cyber_sanctions" ->
         [ jurisdiction |-> NULL, query |-> NULL, limit |-> Undefined ]
    [] name = "get_delisting_procedure" ->
         [ procedure_id |-> NULL, regime_id |-> NULL, limit |-> Undefined ]
    [] name = "get_export_control" ->
         [ jurisdiction |-> NULL, section |-> NULL, query |-> NULL, limit |-> Undefined ]
    [] name = "search_sanctions_case_law" ->
         [ query |-> NULL, regime_id |-> NULL, court |-> NULL, delisting_related |-> NULL,
           limit |-> Undefined ]
    [] name = "check_data_freshness" ->
         [ max_age_days |-> Undefined, as_of |-> MissingDate, status |-> NULL ]

-----------------------------------------------------------------------------
(* The records seeds are drawn from. *)

S1 == <<"S1">>
S2 == <<"S2">>
R1 == <<"R1">>
D1 == <<"D1">>
I1 == <<"I1">>

SourceRec(id) ==
  [ id |-> id, name |-> <<"n">>, priority |-> <<"high">>, metadata |-> NULL ]

RegimeRec(id, procedure) ==
  [ id |-> id, name |-> <<"n">>, jurisdiction |-> <<"EU">>, cyber_related |-> TRUE,
    delisting_procedure_id |-> procedure ]

ProvisionRec(source, item, regime, title, topics) ==
  [ source_id |-> source, item_id |-> item, title |-> title, text |-> <<"a">>,
    parent |-> NULL, kind |-> <<"k">>, regime_id |-> regime, issued_on |-> 0,
    url |-> <<"u">>, topics |-> topics, metadata |-> NULL ]

ExecutiveOrderRec(id, source, regime) ==
  [ id |-> id, source_id |-> source, regime_id |-> regime, order_number |-> <<"1">>,
    title |-> <<"a">>, issued_on |-> 1, summary |-> <<"a">>, cyber_related |-> TRUE ]

DelistingProcedureRec(id, regime) == [ id |-> id, regime_id |-> regime ]

ExportControlRec(id, source) ==
  [ id |-> id, source_id |-> source, jurisdiction |-> <<"EU">>, instrument |-> <<"a">>,
    section |-> <<"a">>, title |-> <<"a">>, summary |-> <<"a">>, focus |-> <<"a">> ]

CaseLawRec(id, source, regime) ==
  [ id |-> id, source_id |-> source, court |-> <<"a">>, case_reference |-> <<"a">>,
    title |-> <<"a">>, decision_date |-> 1, regime_id |-> regime,
    delisting_related |-> FALSE, summary |-> <<"a">>, keywords |-> <<>> ]

FreshnessRec(source, last_updated, frequency, status) ==
  [ source_id |-> source, last_checked |-> last_updated, last_updated |-> last_updated,
    check_frequency |-> frequency, status |-> status, notes |-> <<"a">> ]

SeedRecords(table) ==
  CASE table = "sources"              -> {SourceRec(S1), SourceRec(S2)}
    [] table = "sanctions_regimes"    -> {RegimeRec(R1, NULL), RegimeRec(R1, D1)}
    [] table = "provisions"           ->
         {ProvisionRec(src, I1, regime, <<"a">>, <<>>) : src \in {S1, S2}, regime \in {NULL, R1}}
           \cup {ProvisionRec(S1, I1, NULL, NULL, <<>>)}
    [] table = "executive_orders"     -> {ExecutiveOrderRec(<<"E1">>, S1, R1)}
    [] table = "delisting_procedures" -> {DelistingProcedureRec(D1, R1)}
    [] table = "export_controls"      -> {ExportControlRec(<<"X1">>, S2)}
    [] table = "sanctions_case_law"   -> {CaseLawRec(<<"C1">>, S1, NULL)}
    [] table = "source_freshness"     -> {FreshnessRec(S1, DateText(0), <<"daily">>, <<"fresh">>)}

\* The collections from the k-th on, holding at most `budget` records.
RECURSIVE SeedCollections(_, _)
SeedCollections(k, budget) ==
  IF k > Len(SeedOrder) THEN {<<>>}
  ELSE UNION { { <<records>> \o rest : rest \in SeedCollections(k + 1, budget - Len(records)) } :
               records \in SeqsUpTo(SeedRecords(SeedOrder[k]),
                                    Min(budget, MaxSeedCollection)) }

SeedOf(collections) ==
  [ sources              |-> collections[1],
    sanctions_regimes    |-> collections[2],
    provisions           |-> collections[3],
    executive_orders     |-> collections[4],
    delisting_procedures |-> collections[5],
    export_controls      |-> collections[6],
    sanctions_case_law   |-> collections[7],
    source_freshness     |-> collections[8] ]

Seeds == {SeedOf(c) : c \in SeedCollections(1, MaxSeedRecords)}

\* Stores an earlier build can have left: a fresh schema, or one loaded with
\* a small seed.
PriorStores ==
  {EmptyStore} \cup
  { seedSanctionsDatabase(EmptyStore, SeedOf(c)).db : c \in SeedCollections(1, MaxPriorRecords) }

-----------------------------------------------------------------------------
(* The store being built: schema creation, the seed transaction, and SQL   *)
(* statements on provisions.                                               *)

NoCall == [op |-> "none", input |-> NULL]
NoResult == [ok |-> TRUE, failedAt |-> 0, table |-> "none", fresh |-> FALSE]

InitStore ==
  /\ db \in PriorStores
  /\ call = NoCall
  /\ result = NoResult
  /\ seeded = FALSE

\* build-db.ts main, first statement of the try block.
CreateSchema ==
  /\ db' = createSanctionsSchema(db)
  /\ call' = [op |-> "createSanctionsSchema", input |-> NULL]
  /\ result' = NoResult
  /\ seeded' = FALSE

\* build-db.ts main, second statement: one seed per build.
Seed ==
  /\ ~seeded
  /\ \E seed \in Seeds :
       LET r == seedSanctionsDatabase(db, seed)
       IN  /\ db' = r.db
           /\ call' = [op |-> "seedSanctionsDatabase", input |-> seed]
           /\ result' = [ok |-> r.ok, failedAt |-> r.failedAt, table |-> r.table,
                         fresh |-> (db = EmptyStore)]
  /\ seeded' = TRUE

UpdateProvision ==
  /\ \E row \in Rows(db.provisions), title \in {<<"a">>, <<"b">>, NULL}, regime \in {NULL, R1} :
       LET r == UpdateProvisionRow(db, row.rowid, title, regime)
       IN  /\ db' = r.db
           /\ call' = [op |-> "update", input |-> NULL]
           /\ result' = [ok |-> r.ok, failedAt |-> 0, table |-> "provisions", fresh |-> FALSE]
  /\ UNCHANGED seeded

DeleteProvision ==
  /\ \E row \in Rows(db.provisions) :
       LET r == DeleteProvisionRow(db, row.rowid)
       IN  /\ db' = r.db
           /\ call' = [op |-> "delete", input |-> NULL]
           /\ result' = [ok |-> r.ok, failedAt |-> 0, table |-> "provisions", fresh |-> FALSE]
  /\ UNCHANGED seeded

NextStore == CreateSchema \/ Seed

SpecStore == InitStore /\ [][NextStore]_vars

\* The same store with SQL statements on provisions between builds.
NextFts == CreateSchema \/ Seed \/ UpdateProvision \/ DeleteProvision

SpecFts == InitStore /\ [][NextFts]_vars

-----------------------------------------------------------------------------
(* The stores the query operations are run on. *)

Digits == <<"0", "1", "2", "3", "4", "5", "6", "7", "8", "9">>

\* The id with the two-digit number i appended.
Numbered(id, i) == id \o <<Digits[(i \div 10) + 1], Digits[(i % 10) + 1]>>

NoRecords ==
  [ sources |-> <<>>, sanctions_regimes |-> <<>>, provisions |-> <<>>,
    executive_orders |-> <<>>, delisting_procedures |-> <<>>, export_controls |-> <<>>,
    sanctions_case_law |-> <<>>, source_freshness |-> <<>> ]

\* A store with n rows in every table a limit applies to; each provision
\* holds the term "a" and the topic "cyber".
BigStore(n) ==
  seedSanctionsDatabase(EmptyStore,
    [ NoRecords EXCEPT
        !.sources = <<SourceRec(S1)>>,
        !.sanctions_regimes = [i \in 1..n |-> RegimeRec(Numbered(R1, i), NULL)],
        !.provisions = [i \in 1..n |->
                          ProvisionRec(S1, Numbered(I1, i), NULL, <<"a">>, << <<"cyber">> >>)],
        !.executive_orders = [i \in 1..n |-> ExecutiveOrderRec(Numbered(<<"E1">>, i), S1, NULL)],
        !.delisting_procedures =
          [i \in 1..n |-> DelistingProcedureRec(Numbered(D1, i), Numbered(R1, i))],
        !.export_controls = [i \in 1..n |-> ExportControlRec(Numbered(<<"X1">>, i), S1)],
        !.sanctions_case_law = [i \in 1..n |-> CaseLawRec(Numbered(<<"C1">>, i), S1, NULL)] ]).db

\* Two sources, one regime, one executive order and three provisions: only
\* the first has "b" in its title, and their topic lists differ.
SearchStore ==
  seedSanctionsDatabase(EmptyStore,
    [ NoRecords EXCEPT
        !.sources = <<SourceRec(S1), SourceRec(S2)>>,
        !.sanctions_regimes = <<RegimeRec(R1, NULL)>>,
        !.provisions =
          << ProvisionRec(S1, I1, R1, <<"b">>, << <<"a", "x", "c">> >>),
             ProvisionRec(S1, <<"I2">>, NULL, <<"a">>, << <<"É">> >>),
             ProvisionRec(S2, I1, NULL, <<"a">>, << <<"a", "_", "c">> >>) >>,
        !.executive_orders = <<ExecutiveOrderRec(<<"E1">>, S1, R1)>> ]).db

Frequencies == {<<"daily">>, <<"weekly">>, <<"monthly">>, <<"on_change">>, <<"hourly">>}

\* Two sources checked at the given frequency: one last updated on day 2,
\* one whose last_updated does not parse.
FreshStore(frequency) ==
  seedSanctionsDatabase(EmptyStore,
    [ NoRecords EXCEPT
        !.sources = <<SourceRec(S1), SourceRec(S2)>>,
        !.source_freshness =
          << FreshnessRec(S2, GarbageDate, frequency, <<"stale">>),
             FreshnessRec(S1, DateText(4), frequency, <<"fresh">>) >> ]).db

-----------------------------------------------------------------------------
(* The query specifications: the store is fixed and operations are called   *)
(* on it.                                                                   *)

Ties == {"asc", "desc"}

InitWith(stores) ==
  /\ db \in stores
  /\ call = NoCall
  /\ result = NoResult
  /\ seeded = TRUE

\* The tool is called and its outcome recorded; the store is left alone.
Call(Tool(_, _, _), name, args, tie) ==
  /\ call' = [op |-> name, input |-> args, tie |-> tie]
  /\ result' = Tool(db, args, tie)
  /\ UNCHANGED <<db, seeded>>

\* The reply has been sent; the server awaits the next request.  It answers
\* one request at a time: each operation starts when no call is in progress.
Reply ==
  /\ call # NoCall
  /\ call' = NoCall
  /\ result' = NoResult
  /\ UNCHANGED <<db, seeded>>

\* normalizeLimit on its own.
LimitValues ==
  {Undefined, JsNull, JsString, NaN, Infinity(1), Infinity(-1)}
    \cup {Halves(h) : h \in (0 - MaxLimitHalves)..MaxLimitHalves}

NormalizeLimit ==
  /\ call = NoCall
  /\ \E limit \in LimitValues, defaultValue \in {1, DEFAULT_LIMIT} :
       /\ call' = [op |-> "normalizeLimit",
                   input |-> [limit |-> limit, defaultValue |-> defaultValue], tie |-> "asc"]
       /\ result' = Returned(normalizeLimit(limit, defaultValue), 0)
  /\ UNCHANGED <<db, seeded>>

SpecLimit == InitWith({EmptyStore}) /\ [][NormalizeLimit \/ Reply]_vars

\* The operations that take a limit, on stores below and above MAX_LIMIT rows.
CapLimits ==
  {Undefined, JsNull, JsString, NaN, Infinity(1), Infinity(-1)}
    \cup {Halves(h) : h \in {0 - MaxLimitHalves, -2, -1, 0, 1, 2, 3, 4, 5, 19, 20, 21,
                             MaxLimitHalves - 4, MaxLimitHalves - 3, MaxLimitHalves - 2,
                             MaxLimitHalves - 1, MaxLimitHalves}}

CapSearchSanctionsLaw ==
  /\ call = NoCall
  /\ \E limit \in CapLimits, tie \in Ties :
       Call(searchSanctionsLaw, "search_sanctions_law",
            [NoArguments("search_sanctions_law") EXCEPT !.query = <<"a">>, !.limit = limit], tie)

CapGetSanctionsRegime ==
  /\ call = NoCall
  /\ \E limit \in CapLimits, regime_id \in {NULL, Numbered(R1, 1)}, tie \in Ties :
       Call(getSanctionsRegime, "get_sanctions_regime",
            [NoArguments("get_sanctions_regime") EXCEPT !.regime_id = regime_id, !.limit = limit], tie)

CapGetDelistingProcedure ==
  /\ call = NoCall
  /\ \E limit \in CapLimits, tie \in Ties :
       Call(getDelistingProcedure, "get_delisting_procedure",
            [NoArguments("get_delisting_procedure") EXCEPT !.limit = limit], tie)

CapGetExportControl ==
  /\ call = NoCall
  /\ \E limit \in CapLimits, tie \in Ties :
       Call(getExportControl, "get_export_control", [NoArguments("get_export_control") EXCEPT !.limit = limit], tie)

CapSearchSanctionsCaseLaw ==
  /\ call = NoCall
  /\ \E limit \in CapLimits, tie \in Ties :
       Call(searchSanctionsCaseLaw, "search_sanctions_case_law",
            [NoArguments("search_sanctions_case_law") EXCEPT !.limit = limit], tie)

CapCheckCyberSanctions ==
  /\ call = NoCall
  /\ \E limit \in CapLimits, tie \in Ties :
       Call(checkCyberSanctions, "check_cyber_sanctions",
            [NoArguments("check_cyber_sanctions") EXCEPT !.limit = limit], tie)

NextCap ==
  \/ CapSearchSanctionsLaw
  \/ CapGetSanctionsRegime
  \/ CapGetDelistingProcedure
  \/ CapGetExportControl
  \/ CapSearchSanctionsCaseLaw
  \/ CapCheckCyberSanctions
  \/ Reply

SpecCap == InitWith({BigStore(n) : n \in {0, 1, MaxRows}}) /\ [][NextCap]_vars

\* check_data_freshness over every as_of date up to MaxAgeHalfDays.
CheckDataFreshness ==
  /\ call = NoCall
  /\ \E as_of \in {MissingDate, GarbageDate} \cup {DateText(at) : at \in 0..MaxAgeHalfDays},
        status \in {NULL, <<"fresh">>, <<"warning">>, <<"stale">>, <<"planned">>},
        max_age_days \in {Undefined, Halves(1), Halves(181)},
        today \in {DateText(0), DateText(2 * (MaxAgeHalfDays \div 2))} :
       LET input == [max_age_days |-> max_age_days, as_of |-> as_of, status |-> status]
       IN  /\ call' = [op |-> "check_data_freshness", input |-> input, tie |-> "asc",
                       today |-> today]
           /\ result' = checkDataFreshness(db, input, today)
  /\ UNCHANGED <<db, seeded>>

SpecFresh ==
  InitWith({FreshStore(frequency) : frequency \in Frequencies}) /\ [][CheckDataFreshness \/ Reply]_vars

\* search_sanctions_law on SearchStore.
QueryAtoms ==
  {"a", " ", "\"", "(", ")", "*", ":", "^", "-", "+", ".", "_", "AND", "OR", "NOT", "NEAR"}

SearchText ==
  /\ call = NoCall
  /\ \E query \in SeqsUpTo(QueryAtoms, MaxQueryLen)
                    \cup {<<"\"", "title", ":", "a", "\"">>, <<"a", " ", "OR", " ", "x">>} :
       Call(searchSanctionsLaw, "search_sanctions_law",
            [NoArguments("search_sanctions_law") EXCEPT !.query = query], "asc")

SearchFiltered ==
  /\ call = NoCall
  /\ \E query \in SeqsUpTo({"a", "b", "A", " "}, MaxPlainQueryLen),
        source_ids \in {<<>>, <<S1>>, <<S2, <<" ">>, S2>>},
        jurisdictions \in {<<>>, << <<"EU">> >>},
        regime_id \in {NULL, <<" ">>, R1},
        topics \in {<<>>, << <<"a", "_", "c">> >>, << <<"É">> >>, << <<"x">>, <<"A">> >>},
        limit \in {Undefined, Halves(4)},
        tie \in Ties :
       Call(searchSanctionsLaw, "search_sanctions_law",
            [ query |-> query, source_ids |-> source_ids, jurisdictions |-> jurisdictions,
              regime_id |-> regime_id, topics |-> topics, limit |-> limit ], tie)

NextSearch == SearchText \/ SearchFiltered \/ Reply

SpecSearch == InitWith({SearchStore}) /\ [][NextSearch]_vars

\* The operations with a required input, called with and without it.
SearchQuery ==
  /\ call = NoCall
  /\ \E query \in {NULL} \cup SeqsUpTo({"a", " "}, MaxPlainQueryLen),
        limit \in {Undefined, Halves(4)},
        tie \in Ties :
       Call(searchSanctionsLaw, "search_sanctions_law",
            [NoArguments("search_sanctions_law") EXCEPT !.query = query, !.limit = limit], tie)

GetProvision ==
  /\ call = NoCall
  /\ \E source_id \in {NULL, <<>>, <<" ">>, S1, <<" ">> \o S2},
        item_id \in {NULL, <<>>, <<" ", " ">>, I1, <<"I3">>},
        include_related \in BOOLEAN,
        tie \in Ties :
       Call(getProvision, "get_provision",
            [source_id |-> source_id, item_id |-> item_id, include_related |-> include_related], tie)

GetExecutiveOrder ==
  /\ call = NoCall
  /\ \E order_number \in {NULL, <<>>, <<" ">>, <<"1">>, <<"E1", " ">>, <<"2">>},
        include_related_provisions \in BOOLEAN,
        tie \in Ties :
       Call(getExecutiveOrder, "get_executive_order",
            [ order_number |-> order_number,
              include_related_provisions |-> include_related_provisions ], tie)

NextLookup == SearchQuery \/ GetProvision \/ GetExecutiveOrder \/ Reply

SpecLookup == InitWith({SearchStore}) /\ [][NextLookup]_vars

-----------------------------------------------------------------------------
(* Claims about the seed transaction and the schema. *)

IsSeedCall(c) == c.op = "seedSanctionsDatabase"

TableNames == {SeedOrder[k] : k \in DOMAIN SeedOrder}

\* The columns that identify a seed record in its table.
SameRecord(table, record, row) ==
  CASE table = "sources" -> row.id = record.id /\ row.name = record.name
    [] table = "provisions" ->
         /\ row.source_id = record.source_id /\ row.item_id = record.item_id
         /\ row.title = record.title /\ row.regime_id = record.regime_id
    [] table = "source_freshness" -> row.source_id = record.source_id
    [] table = "sanctions_regimes" ->
         row.id = record.id /\ row.delisting_procedure_id = record.delisting_procedure_id
    [] table = "delisting_procedures" -> row.id = record.id /\ row.regime_id = record.regime_id
    [] OTHER -> row.id = record.id /\ row.source_id = record.source_id

\* Every record of the seed was appended, in order, after the rows held
\* before, and each new provision is indexed.
SeedPresent(seed, before, after) ==
  /\ \A t \in TableNames :
       /\ Len(after[t]) = Len(before[t]) + Len(seed[t])
       /\ SubSeq(after[t], 1, Len(before[t])) = before[t]
       /\ \A i \in DOMAIN seed[t] :
            SameRecord(t, seed[t][i], after[t][Len(before[t]) + i])
  /\ Cardinality(after.provisions_fts) =
       Cardinality(before.provisions_fts) + Len(seed.provisions)

\* C6: seedSanctionsDatabase is all-or-nothing: when an insert fails the store
\* (every table and the full-text index) is exactly what it was before the
\* call, and when none fails every record of the seed is present afterwards.
C6_SeedAllOrNothing ==
  [][ IsSeedCall(call') =>
        IF result'.ok
        THEN SeedPresent(call'.input, db, db')
        ELSE db' = db ]_vars

\* A seed loaded into a populated store fails after an earlier insert of the
\* same transaction had succeeded.
C6_Witness ==
  /\ IsSeedCall(call) /\ ~result.ok /\ result.failedAt > 1
  /\ ~result.fresh /\ db.sources # <<>>

\* C7: the full-text index holds exactly one entry per provisions row, with
\* the row's rowid and its current indexed columns, and nothing else.
C7_FtsInSync ==
  /\ db.provisions_fts = {FtsEntry(row) : row \in Rows(db.provisions)}
  /\ Cardinality(db.provisions_fts) = Len(db.provisions)
  /\ \A i, j \in DOMAIN db.provisions :
       db.provisions[i].rowid = db.provisions[j].rowid => i = j

\* A seed that had inserted a provision was rolled back, in a store that
\* holds a row changed by an earlier UPDATE.
C7_Witness ==
  /\ IsSeedCall(call) /\ ~result.ok
  /\ result.table = "executive_orders" /\ call.input.provisions # <<>>
  /\ \E row \in Rows(db.provisions) : row.title = <<"b">>

\* Every source_id, non-null regime_id and non-null delisting_procedure_id
\* resolves to a stored row.
ReferencesResolve(d) ==
  /\ \A t \in {"provisions", "executive_orders", "export_controls",
               "sanctions_case_law", "source_freshness"} :
       \A row \in Rows(d[t]) : row.source_id \in Column(d.sources, "id")
  /\ \A t \in {"provisions", "executive_orders", "delisting_procedures",
               "sanctions_case_law"} :
       \A row \in Rows(d[t]) :
         row.regime_id # NULL => row.regime_id \in Column(d.sanctions_regimes, "id")
  /\ \A row \in Rows(d.sanctions_regimes) :
       row.delisting_procedure_id # NULL =>
         row.delisting_procedure_id \in Column(d.delisting_procedures, "id")

\* C8: after a successful seed of a freshly created schema every source_id,
\* regime_id and delisting_procedure_id stored resolves to an existing row.
C8_ReferencesResolve ==
  (IsSeedCall(call) /\ result.ok /\ result.fresh) => ReferencesResolve(db)

HasDuplicatePair(provisions) ==
  \E i, j \in DOMAIN provisions :
    /\ i # j
    /\ provisions[i].source_id = provisions[j].source_id
    /\ provisions[i].item_id = provisions[j].item_id

\* C9: no two stored provisions share (source_id, item_id), and a seed that
\* contains a duplicate pair fails and leaves the store as it was.
C9_UniquePair ==
  /\ [](~HasDuplicatePair(db.provisions))
  /\ [][ (IsSeedCall(call') /\ HasDuplicatePair(call'.input.provisions)) =>
           (~result'.ok /\ db' = db) ]_vars

\* A seed with a duplicate pair failed on its second provision.
C9_Witness ==
  /\ IsSeedCall(call) /\ HasDuplicatePair(call.input.provisions)
  /\ ~result.ok /\ result.table = "provisions" /\ result.failedAt = 3

-----------------------------------------------------------------------------
(* Claims about the query operations. *)

IsNumber(limit) == limit.t = "number" /\ ~limit.nan

\* The cap a requested limit stands for: the whole part of the request, no
\* less than 1 and no more than MAX_LIMIT; the default when it is no number.
EffectiveCap(limit, defaultCap) ==
  IF ~IsNumber(limit) THEN defaultCap
  ELSE IF limit.inf = 1 THEN MAX_LIMIT
  ELSE IF limit.inf = -1 \/ limit.h < 2 THEN 1
  ELSE IF limit.h >= 2 * MAX_LIMIT THEN MAX_LIMIT
  ELSE CHOOSE n \in 1..MAX_LIMIT : 2 * n <= limit.h /\ limit.h < 2 * n + 2

Letters == {"a", "b", "c", "x", "A", "B", "É", "é"}

PlainQuery(query) == \A i \in DOMAIN query : query[i] \in Letters \cup {" "}

\* The values of a list filter: trimmed, blanks left out.
Given(values) == {Trim(v) : v \in Rows(values)} \ {<<>>}

\* The provisions a search is to return: every word of the query occurs in
\* an indexed column and every supplied filter holds.
ExpectedProvisions(d, input) ==
  { i \in DOMAIN d.provisions :
      LET row == d.provisions[i]
          jurisdiction == Coalesce(Joined(d.sanctions_regimes, row.regime_id, "jurisdiction"), <<>>)
      IN  /\ \A word \in Rows(Fts5Tokenize(input.query)) :
               \E col \in Fts5IndexedColumns :
                 row[col] # NULL /\ word \in Rows(Fts5Tokenize(row[col]))
          /\ Given(input.source_ids) # {} => row.source_id \in Given(input.source_ids)
          /\ Given(input.jurisdictions) # {} => jurisdiction \in Given(input.jurisdictions)
          /\ HasText(input.regime_id) => row.regime_id = Trim(input.regime_id)
          /\ Given(input.topics) # {} =>
               \E topic \in Given(input.topics) :
                 IsSubstring(toLowerCase(topic), toLowerCase(row.topics)) }

\* C1: search_sanctions_law with a non-blank query of plain words returns, up
\* to the limit, exactly the provisions that hold every word of the query and
\* pass every supplied filter (source, jurisdiction, regime, topic as a
\* case-insensitive substring of the stored topic list), each once, ordered
\* by relevance ascending.
C1_SearchReturnsMatches ==
  (call.op = "search_sanctions_law" /\ HasText(call.input.query) /\ PlainQuery(call.input.query)) =>
    /\ result.error = NULL
    /\ LET rows == result.value
           expected == ExpectedProvisions(db, call.input)
       IN  /\ Len(rows) = Min(Cardinality(expected), EffectiveCap(call.input.limit, DEFAULT_LIMIT))
           /\ \A k \in DOMAIN rows :
                \E i \in expected : /\ db.provisions[i].source_id = rows[k].source_id
                                    /\ db.provisions[i].item_id = rows[k].item_id
           /\ \A k, m \in DOMAIN rows :
                (rows[k].source_id = rows[m].source_id /\ rows[k].item_id = rows[m].item_id) => k = m
           /\ \A k \in 1..(Len(rows) - 1) : rows[k].relevance <= rows[k + 1].relevance

\* C2: for every non-blank query text the expression handed to MATCH is
\* accepted (the search throws nothing) and consists of terms and strings
\* only: no character of the user text is read as an operator, a column
\* filter or a group.
C2_EscapedQueryIsSafe ==
  (call.op = "search_sanctions_law" /\ HasText(call.input.query)) =>
    /\ result.error = NULL
    /\ LET T == Fts5Lex(escapeFts5Query(Trim(call.input.query)))
       IN  \A i \in DOMAIN T : T[i].k = "STRING"

\* C3: every entry of check_data_freshness carries the threshold of its
\* frequency, age_days = max(0, whole days from last_updated to as_of), and
\* exactly the status that age and threshold give: planned when a date does
\* not parse, else fresh up to the threshold, warning up to twice the
\* threshold, stale beyond; a last_updated after as_of gives age 0 and fresh.
C3_FreshnessClassification ==
  call.op = "check_data_freshness" =>
    \A k \in DOMAIN result.value.entries :
      LET entry == result.value.entries[k]
          asOf == IF call.input.as_of.kind = "missing" THEN call.today ELSE call.input.as_of
          parses == entry.last_updated.kind = "date" /\ asOf.kind = "date"
          elapsed == asOf.at - entry.last_updated.at
          age == entry.age_days.n
          threshold == entry.expected_max_age_days
          status == entry.evaluated_status
      IN  /\ threshold = (CASE entry.check_frequency = <<"weekly">>    -> 60
                            [] entry.check_frequency = <<"monthly">>   -> 120
                            [] entry.check_frequency = <<"on_change">> -> 90
                            [] OTHER -> 30)
          /\ parses <=> entry.age_days.inf = 0
          /\ parses =>
               /\ elapsed <= 0 => age = 0 /\ status = <<"fresh">>
               /\ elapsed > 0 => 2 * age <= elapsed /\ elapsed < 2 * age + 2
          /\ status = <<"planned">> <=> ~parses
          /\ status = <<"fresh">> <=> (parses /\ age <= threshold)
          /\ status = <<"warning">> <=> (parses /\ threshold < age /\ age <= 2 * threshold)
          /\ status = <<"stale">> <=> (parses /\ age > 2 * threshold)

\* A daily source aged exactly 60 days is still a warning.
C3_Witness ==
  /\ call.op = "check_data_freshness"
  /\ \E k \in DOMAIN result.value.entries :
       /\ result.value.entries[k].check_frequency = <<"daily">>
       /\ result.value.entries[k].age_days = Ext(60)
       /\ result.value.entries[k].evaluated_status = <<"warning">>

LimitTaking ==
  { "search_sanctions_law", "get_sanctions_regime", "get_delisting_procedure",
    "get_export_control", "search_sanctions_case_law", "check_cyber_sanctions" }

\* The default cap of the call: 1 for get_sanctions_regime with a regime id.
DefaultCap(c) ==
  IF c.op = "get_sanctions_regime" /\ c.input.regime_id # NULL /\ c.input.regime_id # <<>>
  THEN 1 ELSE DEFAULT_LIMIT

\* Rows of the store the call selects from: the calls of SpecCap carry no
\* filter but a regime id, and every provision matches their query.
Available(c, table) ==
  IF c.op = "get_sanctions_regime" /\ HasText(c.input.regime_id)
  THEN Cardinality({i \in DOMAIN db[table] : db[table][i].id = Trim(c.input.regime_id)})
  ELSE Len(db[table])

\* P holds of every list the call returned, with the table it was read from.
ForEachList(c, r, P(_, _)) ==
  CASE c.op = "check_cyber_sanctions" ->
         /\ P(r.value.regimes, "sanctions_regimes")
         /\ P(r.value.executive_orders, "executive_orders")
         /\ P(r.value.provisions, "provisions")
    [] c.op = "search_sanctions_law"      -> P(r.value, "provisions")
    [] c.op = "get_sanctions_regime"      -> P(r.value, "sanctions_regimes")
    [] c.op = "get_delisting_procedure"   -> P(r.value, "delisting_procedures")
    [] c.op = "get_export_control"        -> P(r.value, "export_controls")
    [] c.op = "search_sanctions_case_law" -> P(r.value, "sanctions_case_law")

\* C4 as stated: no list is longer than MAX_LIMIT, nor longer than a
\* requested limit of zero or more.
C4_RowsAtMostRequested ==
  call.op \in LimitTaking =>
    ForEachList(call, result,
      LAMBDA list, table :
        /\ Len(list) <= MAX_LIMIT
        /\ (IsNumber(call.input.limit) /\ call.input.limit.inf = 0 /\ call.input.limit.h >= 0) =>
             2 * Len(list) <= call.input.limit.h)

\* C4: every list a limit-taking operation returns holds min(rows available,
\* cap) rows, where the cap is the whole part of the requested limit kept
\* within 1..MAX_LIMIT, and the operation's default when the limit is omitted
\* or not a number.
C4_RowsWithinCap ==
  call.op \in LimitTaking =>
    ForEachList(call, result,
      LAMBDA list, table :
        LET cap == EffectiveCap(call.input.limit, DefaultCap(call))
        IN  cap \in 1..MAX_LIMIT /\ Len(list) = Min(Available(call, table), cap))

\* A request above MAX_LIMIT on a table with more rows returned MAX_LIMIT rows.
C4_Witness ==
  /\ call.op = "search_sanctions_case_law"
  /\ IsNumber(call.input.limit) /\ call.input.limit.h > 2 * MAX_LIMIT
  /\ Len(db.sanctions_case_law) > MAX_LIMIT
  /\ Len(result.value) = MAX_LIMIT

\* C5: normalizeLimit returns the default for a limit that is missing, not a
\* number or NaN, and otherwise the whole part of the limit kept within
\* 1..MAX_LIMIT.
C5_NormalizeLimit ==
  call.op = "normalizeLimit" =>
    LET limit == call.input.limit
        value == result.value
    IN  IF limit.t # "number" \/ limit.nan
        THEN value = call.input.defaultValue
        ELSE /\ value \in 1..MAX_LIMIT
             /\ limit.inf = 1 => value = MAX_LIMIT
             /\ limit.inf = -1 => value = 1
             /\ (limit.inf = 0 /\ limit.h < 2) => value = 1
             /\ (limit.inf = 0 /\ limit.h >= 2 * MAX_LIMIT) => value = MAX_LIMIT
             /\ (limit.inf = 0 /\ limit.h >= 2 /\ limit.h < 2 * MAX_LIMIT) =>
                  2 * value <= limit.h /\ limit.h < 2 * value + 2

\* A limit of 0 came back as 1, whatever the default.
C5_Witness ==
  /\ call.op = "normalizeLimit"
  /\ call.input.limit = Halves(0) /\ call.input.defaultValue = DEFAULT_LIMIT
  /\ result.value = 1

Blank(value) == value = NULL \/ \A i \in DOMAIN value : value[i] = " "

\* C10: a blank query makes search_sanctions_law return an empty list without
\* error; a blank source_id or item_id makes get_provision, and a blank
\* order_number makes get_executive_order, throw an error naming a blank
\* field; in each case no statement is run against the store.
C10_BlankRequiredInput ==
  /\ (call.op = "search_sanctions_law" /\ Blank(call.input.query)) =>
       result = Returned(<<>>, 0)
  /\ (call.op = "get_provision" /\ (Blank(call.input.source_id) \/ Blank(call.input.item_id))) =>
       /\ result.queries = 0
       /\ \/ Blank(call.input.source_id) /\ result.error = <<"source_id is required">>
          \/ Blank(call.input.item_id) /\ result.error = <<"item_id is required">>
  /\ (call.op = "get_executive_order" /\ Blank(call.input.order_number)) =>
       /\ result.queries = 0
       /\ result.error = <<"order_number is required">>

\* get_provision was called with a stored source and a whitespace item_id.
C10_Witness ==
  /\ call.op = "get_provision"
  /\ call.input.source_id = S1 /\ call.input.item_id = <<" ", " ">>
  /\ result.error = <<"item_id is required">> /\ result.queries = 0

-----------------------------------------------------------------------------
(* Lookups with related provisions: get_provision and get_executive_order.  *)

\* Provisions of one regime, more than RELATED_LIMIT of them, issued on dates
\* that depend on `shift`; provisions without a regime whose topic lists
\* differ; three executive orders, the id of the third being the number of
\* the first.
LookupStore(shift) ==
  seedSanctionsDatabase(EmptyStore,
    [ NoRecords EXCEPT
        !.sources = <<SourceRec(S1), SourceRec(S2)>>,
        !.sanctions_regimes = <<RegimeRec(R1, NULL)>>,
        !.provisions =
          [i \in 1..MaxRegimeProvisions |->
             [ProvisionRec(S1, Numbered(I1, i), R1, <<"a">>, <<>>)
                EXCEPT !.issued_on = (i * shift) % 3]]
          \o << ProvisionRec(S2, I1, NULL, <<"a">>, << <<"a", "x", "c">> >>),
                ProvisionRec(S2, <<"I2">>, NULL, <<"a">>, << <<"a", "_", "c">>, <<"x">> >>),
                ProvisionRec(S2, <<"I3">>, NULL, <<"a">>, << <<"x">> >>),
                [ProvisionRec(S2, Numbered(I1, 1), NULL, <<"a">>, <<>>)
                   EXCEPT !.kind = <<"guidance">>, !.issued_on = shift],
                [ProvisionRec(S2, Numbered(I1, 2), NULL, <<"a">>, <<>>)
                   EXCEPT !.kind = <<"executive_order_section">>] >>,
        !.executive_orders =
          << ExecutiveOrderRec(<<"E1">>, S1, R1),
             [ExecutiveOrderRec(<<"E2">>, S2, NULL) EXCEPT !.order_number = <<"2">>],
             [ExecutiveOrderRec(<<"1">>, S2, NULL) EXCEPT !.order_number = <<"3">>] >> ]).db

LookupProvision ==
  /\ call = NoCall
  /\ \E source_id \in {S1, S2, <<" ">> \o S2},
        item_id \in {Numbered(I1, i) : i \in 1..MaxRegimeProvisions}
                      \cup {I1, <<"I2">>, <<"I3">>, <<"I3", " ">>, <<"X1">>},
        include_related \in BOOLEAN,
        tie \in Ties :
       Call(getProvision, "get_provision",
            [source_id |-> source_id, item_id |-> item_id, include_related |-> include_related],
            tie)

LookupExecutiveOrder ==
  /\ call = NoCall
  /\ \E order_number \in {<<"1">>, <<"2">>, <<"3">>, <<"E1">>, <<"E2">>, <<" ", "2">>, <<"X1">>},
        include_related_provisions \in BOOLEAN,
        tie \in Ties :
       Call(getExecutiveOrder, "get_executive_order",
            [ order_number |-> order_number,
              include_related_provisions |-> include_related_provisions ], tie)

NextRelated == LookupProvision \/ LookupExecutiveOrder \/ Reply

SpecRelated == InitWith({LookupStore(shift) : shift \in 0..2}) /\ [][NextRelated]_vars

\* The stored provisions with the given key.
ProvisionsAt(source, item) ==
  {i \in DOMAIN db.provisions :
     db.provisions[i].source_id = source /\ db.provisions[i].item_id = item}

\* The stored provision a related-provision summary stands for.
ProvisionOf(summary) ==
  db.provisions[CHOOSE i \in ProvisionsAt(summary.source_id, summary.item_id) : TRUE]

\* The list of summaries is ordered by issued_on descending, then item_id
\* ascending.
NewestFirstOrdered(list) ==
  \A k \in 1..(Len(list) - 1) :
    LET a == ProvisionOf(list[k])
        b == ProvisionOf(list[k + 1])
    IN  \/ a.issued_on > b.issued_on
        \/ a.issued_on = b.issued_on /\ ~TextLess(b.item_id, a.item_id)

\* C11: get_provision returns null when no provision has the key; for a found
\* provision related is null unless include_related is set; when set, related
\* holds at most RELATED_LIMIT provisions: others of the same regime when the
\* provision has a regime, else provisions whose stored topic list contains
\* its first topic as a case-insensitive substring, and none when it has
\* neither regime nor topic.  related never holds the provision itself and is
\* ordered by issued_on descending, then item_id ascending.
C11_RelatedProvisions ==
  (call.op = "get_provision" /\ result.error = NULL) =>
    LET found == ProvisionsAt(Trim(call.input.source_id), Trim(call.input.item_id))
        value == result.value
    IN  IF found = {} THEN value = NotFound
        ELSE LET row == db.provisions[CHOOSE i \in found : TRUE]
                 topics == parseJsonArray(row.topics)
             IN  /\ value.found
                 /\ value.source_id = row.source_id /\ value.item_id = row.item_id
                 /\ value.has_related = call.input.include_related
                 /\ ~call.input.include_related => value.related = <<>>
                 /\ Len(value.related) <= RELATED_LIMIT
                 /\ \A k \in DOMAIN value.related :
                      LET other == ProvisionOf(value.related[k])
                      IN  /\ ProvisionsAt(other.source_id, other.item_id) # {}
                          /\ ~(other.source_id = row.source_id /\ other.item_id = row.item_id)
                          /\ IF row.regime_id # NULL
                             THEN other.regime_id = row.regime_id
                             ELSE /\ topics # <<>>
                                  /\ IsSubstring(toLowerCase(topics[1]),
                                                 toLowerCase(other.topics))
                 /\ NewestFirstOrdered(value.related)

\* The executive orders a lookup by `number` may return.
OrdersMatching(number) ==
  {i \in DOMAIN db.executive_orders :
     \/ db.executive_orders[i].order_number = number
     \/ db.executive_orders[i].id = number}

\* The provisions related to an executive order.
RelatedToOrder(order) ==
  {i \in DOMAIN db.provisions :
     IF order.regime_id # NULL
     THEN db.provisions[i].regime_id = order.regime_id
     ELSE /\ db.provisions[i].source_id = order.source_id
          /\ db.provisions[i].kind \in {<<"executive_order_section">>, <<"guidance">>}}

\* C12: get_executive_order returns an order whose order_number or id equals
\* the trimmed input, and null exactly when no stored order matches either
\* way; related_provisions is null unless include_related_provisions is set,
\* and then holds at most RELATED_LIMIT provisions, all of the order's regime
\* when it has one, otherwise all of the order's source with kind
\* executive_order_section or guidance; it holds RELATED_LIMIT of them when
\* that many exist.
C12_ExecutiveOrderLookup ==
  (call.op = "get_executive_order" /\ result.error = NULL) =>
    LET matching == OrdersMatching(Trim(call.input.order_number))
        value == result.value
    IN  /\ (value = NotFound) <=> (matching = {})
        /\ matching # {} =>
             /\ \E i \in matching :
                  /\ db.executive_orders[i].id = value.id
                  /\ db.executive_orders[i].order_number = value.order_number
                  /\ db.executive_orders[i].regime_id = value.regime_id
                  /\ db.executive_orders[i].source_id = value.source_id
             /\ value.has_related_provisions = call.input.include_related_provisions
             /\ ~call.input.include_related_provisions => value.related_provisions = <<>>
             /\ call.input.include_related_provisions =>
                  /\ Len(value.related_provisions)
                       = Min(RELATED_LIMIT, Cardinality(RelatedToOrder(value)))
                  /\ \A k \in DOMAIN value.related_provisions :
                       \E i \in RelatedToOrder(value) :
                         /\ db.provisions[i].source_id = value.related_provisions[k].source_id
                         /\ db.provisions[i].item_id = value.related_provisions[k].item_id

\* An order without a regime was found by its number, with the two
\* provisions of its source whose kind is on the list.
C12_Witness ==
  /\ call.op = "get_executive_order"
  /\ call.input.order_number = <<" ", "2">>
  /\ call.input.include_related_provisions
  /\ result.value.found /\ result.value.id = <<"E2">>
  /\ Len(result.value.related_provisions) = 2

-----------------------------------------------------------------------------
(* check_cyber_sanctions over regimes, orders and provisions of several
   jurisdictions, with and without a linked regime. *)

\* Source ids with each prefix of the naming convention, and one without.
CyberSources == << S1, <<"UN_", "a">>, <<"EU_", "a">>, <<"US_", "a">>, <<"UK_", "a">> >>

\* Regime links of the orders and provisions of every source: none, a
\* regime of the EU, a regime of the UK that is not flagged cyber.
CyberLinks == << NULL, R1, Numbered(R1, 2) >>

\* Titles: one holds "a" in upper case, one in lower case, one not at all.
CyberTitles == << <<"A", "b">>, <<"x", "a">>, <<"x">> >>

CyberStore ==
  seedSanctionsDatabase(EmptyStore,
    [ NoRecords EXCEPT
        !.sources = [i \in DOMAIN CyberSources |-> SourceRec(CyberSources[i])],
        !.sanctions_regimes =
          << [RegimeRec(R1, NULL) EXCEPT !.name = <<"b">>],
             [RegimeRec(Numbered(R1, 1), NULL) EXCEPT !.jurisdiction = <<"US">>],
             [RegimeRec(Numbered(R1, 2), NULL) EXCEPT !.jurisdiction = <<"UK">>,
                                                     !.cyber_related = FALSE],
             [RegimeRec(Numbered(R1, 3), NULL) EXCEPT !.jurisdiction = <<"UK">>] >>,
        !.executive_orders =
          [i \in 1..(Len(CyberSources) * Len(CyberLinks)) |->
             LET s == ((i - 1) \div Len(CyberLinks)) + 1
                 l == ((i - 1) % Len(CyberLinks)) + 1
             IN  [ExecutiveOrderRec(Numbered(<<"E1">>, i), CyberSources[s], CyberLinks[l])
                    EXCEPT !.order_number = Numbered(<<>>, i),
                           !.title = CyberTitles[(i % 3) + 1],
                           !.summary = <<"x">>,
                           !.issued_on = 1 + (i % 2),
                           !.cyber_related = (i # 2)]],
        !.provisions =
          [i \in 1..(Len(CyberSources) * Len(CyberLinks)) |->
             LET s == ((i - 1) \div Len(CyberLinks)) + 1
                 l == ((i - 1) % Len(CyberLinks)) + 1
             IN  [ProvisionRec(CyberSources[s], Numbered(I1, i), CyberLinks[l],
                               CyberTitles[(i % 3) + 1],
                               IF i = 2 THEN << <<"x">> >> ELSE << <<"cyber">> >>)
                    EXCEPT !.text = <<"x">>, !.issued_on = i % 2]] ]).db

CyberJurisdictions ==
  { NULL, <<>>, <<" ">>, <<"EU">>, <<" ", "EU", " ">>, <<"US">>, <<"UK">>, <<"UN">>,
    <<"INTL">>, <<"x">> }

CyberQueries == { NULL, <<>>, <<" ">>, <<"a">>, <<"A">>, <<" ", "b">>, <<"c">> }

CyberLimits == { Undefined, Halves(2), Halves(6), Halves(200) }

CheckCyberSanctions ==
  /\ call = NoCall
  /\ \E jurisdiction \in CyberJurisdictions, query \in CyberQueries,
        limit \in CyberLimits, tie \in Ties :
       Call(checkCyberSanctions, "check_cyber_sanctions",
            [jurisdiction |-> jurisdiction, query |-> query, limit |-> limit], tie)

NextCyber == CheckCyberSanctions \/ Reply

SpecCyber == InitWith({CyberStore}) /\ [][NextCyber]_vars

\* The jurisdiction each prefix of the naming convention stands for.
PrefixJurisdiction ==
  [ prefix \in {"UN_", "EU_", "US_", "UK_"} |->
      CASE prefix = "UN_" -> <<"UN">>
        [] prefix = "EU_" -> <<"EU">>
        [] prefix = "US_" -> <<"US">>
        [] prefix = "UK_" -> <<"UK">> ]

\* The jurisdiction of a stored order or provision: that of its regime when
\* it has one, else the one its source id's prefix stands for.
JurisdictionOfRow(row) ==
  IF row.regime_id # NULL
  THEN db.sanctions_regimes[CHOOSE i \in DOMAIN db.sanctions_regimes :
                              db.sanctions_regimes[i].id = row.regime_id].jurisdiction
  ELSE IF Head(row.source_id) \in DOMAIN PrefixJurisdiction
       THEN PrefixJurisdiction[Head(row.source_id)]
       ELSE <<"INTL">>

OrderWithId(id) ==
  db.executive_orders[CHOOSE i \in DOMAIN db.executive_orders : db.executive_orders[i].id = id]

\* C13: check_cyber_sanctions reports for every executive order and provision
\* the jurisdiction of its linked regime, and without a regime the one
\* inferred from the prefix of its source id (UN_, EU_, US_, UK_, else INTL);
\* with a jurisdiction filter every returned regime, executive order and
\* provision has exactly the filter's jurisdiction.
C13_CyberJurisdiction ==
  (call.op = "check_cyber_sanctions" /\ result.error = NULL) =>
    LET value == result.value
        filter == call.input.jurisdiction
    IN  /\ \A k \in DOMAIN value.executive_orders :
             value.executive_orders[k].jurisdiction
               = JurisdictionOfRow(OrderWithId(value.executive_orders[k].id))
        /\ \A k \in DOMAIN value.provisions :
             value.provisions[k].jurisdiction
               = JurisdictionOfRow(ProvisionOf(value.provisions[k]))
        /\ ~Blank(filter) =>
             /\ \A k \in DOMAIN value.regimes :
                  value.regimes[k].jurisdiction = Trim(filter)
             /\ \A k \in DOMAIN value.executive_orders :
                  value.executive_orders[k].jurisdiction = Trim(filter)
             /\ \A k \in DOMAIN value.provisions :
                  value.provisions[k].jurisdiction = Trim(filter)

\* With the filter UK, an order without a regime whose source id starts with
\* UK_ is returned as UK, next to a regime of the UK.
C13_Witness ==
  /\ call.op = "check_cyber_sanctions"
  /\ call.input.jurisdiction = <<"UK">>
  /\ \E k \in DOMAIN result.value.executive_orders :
       /\ OrderWithId(result.value.executive_orders[k].id).regime_id = NULL
       /\ Head(OrderWithId(result.value.executive_orders[k].id).source_id) = "UK_"
       /\ result.value.executive_orders[k].jurisdiction = <<"UK">>
  /\ \E k \in DOMAIN result.value.executive_orders :
       OrderWithId(result.value.executive_orders[k].id).regime_id # NULL
  /\ result.value.regimes # <<>>
  /\ result.value.provisions # <<>>

\* The text of a value that holds the query, whatever the case of either.
HoldsQuery(query, text) == IsSubstring(toLowerCase(Trim(query)), toLowerCase(text))

\* C14: check_cyber_sanctions returns regimes flagged cyber, executive orders
\* flagged cyber and provisions whose topics hold "cyber"; with a non-blank
\* query every returned regime, executive order and provision holds the
\* query text as a case-insensitive substring; each list holds at most the
\* clamped limit of items.
C14_CyberListsNarrowed ==
  (call.op = "check_cyber_sanctions" /\ result.error = NULL) =>
    LET value == result.value
        query == call.input.query
        cap == EffectiveCap(call.input.limit, 10)
        RegimeWithId(id) ==
          db.sanctions_regimes[CHOOSE i \in DOMAIN db.sanctions_regimes :
                                 db.sanctions_regimes[i].id = id]
    IN  /\ Len(value.regimes) <= cap
        /\ Len(value.executive_orders) <= cap
        /\ Len(value.provisions) <= cap
        /\ \A k \in DOMAIN value.regimes :
             RegimeWithId(value.regimes[k].regime_id).cyber_related = 1
        /\ \A k \in DOMAIN value.executive_orders :
             OrderWithId(value.executive_orders[k].id).cyber_related = 1
        /\ \A k \in DOMAIN value.provisions :
             IsSubstring(<<"cyber">>, ProvisionOf(value.provisions[k]).topics)
        /\ ~Blank(query) =>
             /\ \A k \in DOMAIN value.executive_orders :
                  LET row == OrderWithId(value.executive_orders[k].id)
                  IN  HoldsQuery(query, row.title) \/ HoldsQuery(query, row.summary)
             /\ \A k \in DOMAIN value.provisions :
                  LET row == ProvisionOf(value.provisions[k])
                  IN  HoldsQuery(query, row.title) \/ HoldsQuery(query, row.text)
             /\ \A k \in DOMAIN value.regimes :
                  LET row == RegimeWithId(value.regimes[k].regime_id)
                  IN  \/ HoldsQuery(query, row.id)
                      \/ HoldsQuery(query, row.name)
                      \/ HoldsQuery(query, row.jurisdiction)

-----------------------------------------------------------------------------
(* check_data_freshness with every kind of max_age_days and status. *)

\* Four sources, one per frequency; the declared status of each is not the
\* one its age gives.  The second has a last_updated that does not parse.
AgeStore ==
  seedSanctionsDatabase(EmptyStore,
    [ NoRecords EXCEPT
        !.sources = << SourceRec(S1), SourceRec(S2), SourceRec(Numbered(S1, 1)),
                       SourceRec(Numbered(S1, 2)) >>,
        !.source_freshness =
          << FreshnessRec(Numbered(S1, 2), DateText(40), <<"on_change">>, <<"planned">>),
             FreshnessRec(S1, DateText(0), <<"daily">>, <<"stale">>),
             FreshnessRec(S2, GarbageDate, <<"weekly">>, <<"stale">>),
             FreshnessRec(Numbered(S1, 1), DateText(0), <<"monthly">>, <<"fresh">>) >> ]).db

\* as_of dates, in days: around each threshold and its double.
AsOfDays == {0, 1, 2, 20, 30, 31, 45, 46, 60, 61, 120, 121, 240, 241}

MaxAgeValues ==
  {Undefined, JsNull, JsString, NaN, Infinity(1), Infinity(-1)}
    \cup {Halves(h) : h \in {-3, 0, 1, 2, 3, 4, 5, 89, 90, 91, 92, 484}}

StatusValues ==
  {NULL, <<>>, <<"fresh">>, <<"warning">>, <<"stale">>, <<"planned">>, <<"x">>}

CheckMaxAge ==
  /\ call = NoCall
  /\ \E as_of \in {MissingDate, GarbageDate} \cup {DateText(2 * day) : day \in AsOfDays},
        status \in StatusValues,
        max_age_days \in MaxAgeValues :
       LET input == [max_age_days |-> max_age_days, as_of |-> as_of, status |-> status]
       IN  /\ call' = [op |-> "check_data_freshness", input |-> input, tie |-> "asc",
                       today |-> DateText(100)]
           /\ result' = checkDataFreshness(db, input, DateText(100))
  /\ UNCHANGED <<db, seeded>>

SpecAge == InitWith({AgeStore}) /\ [][CheckMaxAge \/ Reply]_vars

\* The freshness rows whose declared status is the given one.
DeclaredAs(status) ==
  {i \in DOMAIN db.source_freshness : db.source_freshness[i].status = status}

\* C15: check_data_freshness with a status returns exactly the sources whose
\* declared status is the requested one: every returned entry's declared
\* status equals it and no source declared so is left out.
C15_FilterByDeclaredStatus ==
  (call.op = "check_data_freshness" /\ ~Falsy(call.input.status)) =>
    LET entries == result.value.entries
    IN  /\ \A k \in DOMAIN entries : entries[k].declared_status = call.input.status
        /\ \A i \in DeclaredAs(call.input.status) :
             \E k \in DOMAIN entries : entries[k].source_id = db.source_freshness[i].source_id

\* An entry with the two fields max_age_days may change left out.
WithoutWithin(entry) ==
  [f \in (DOMAIN entry) \ {"is_within_max_age"} |-> entry[f]]

\* The whole days max_age_days stands for; 45 when it is no number.
MaxAgeOf(value) ==
  IF value.t # "number" THEN 45
  ELSE IF value.inf = -1 \/ value.h < 2 THEN 1
  ELSE CHOOSE n \in 1..MaxAgeHalfDays : 2 * n <= value.h /\ value.h < 2 * n + 2

\* Same entries, order, ages, thresholds, statuses and totals in the results
\* of the call made and of the same call with any other max_age_days.
MaxAgeLeavesClassification ==
  \A other \in MaxAgeValues :
    LET twin == checkDataFreshness(db, [call.input EXCEPT !.max_age_days = other],
                                   call.today).value
        made == result.value
    IN  /\ Len(twin.entries) = Len(made.entries)
        /\ \A k \in DOMAIN made.entries :
             WithoutWithin(twin.entries[k]) = WithoutWithin(made.entries[k])
        /\ twin.totals = made.totals
        /\ twin.as_of = made.as_of

\* C16 as stated: max_age_days does not influence classification; and
\* is_within_max_age is true exactly when age_days <= max(1,
\* floor(max_age_days)), 45 when max_age_days is not given, and false for an
\* entry whose age is unknown.
C16_WithinMaxAgeFalseWhenUnknown ==
  call.op = "check_data_freshness" =>
    /\ MaxAgeLeavesClassification
    /\ \A k \in DOMAIN result.value.entries :
         LET entry == result.value.entries[k]
             given == call.input.max_age_days
         IN  entry.is_within_max_age <=>
               /\ entry.age_days.inf = 0
               /\ ~(given.t = "number" /\ given.nan)
               /\ \/ given.t = "number" /\ given.inf = 1
                  \/ entry.age_days.n <= MaxAgeOf(given)

\* C16: max_age_days does not influence classification: calls that differ
\* only in max_age_days return the same entries in the same order with the
\* same age_days, expected_max_age_days, evaluated_status and totals.
\* is_within_max_age is true exactly when age_days <= max(1,
\* floor(max_age_days)), 45 when max_age_days is no number, the comparison
\* being false for NaN; so it is false for an entry whose age is unknown
\* unless max_age_days is positive infinity.
C16_MaxAgeOnlySetsWithin ==
  call.op = "check_data_freshness" =>
    /\ MaxAgeLeavesClassification
    /\ \A k \in DOMAIN result.value.entries :
         LET entry == result.value.entries[k]
             given == call.input.max_age_days
         IN  entry.is_within_max_age <=>
               /\ ~(given.t = "number" /\ given.nan)
               /\ \/ given.t = "number" /\ given.inf = 1
                  \/ entry.age_days.inf = 0 /\ entry.age_days.n <= MaxAgeOf(given)

\* With max_age_days 0.5 the age of 1 day is within the maximum and the age
\* of 2 days and the unknown age are not.
C16_Witness ==
  /\ call.op = "check_data_freshness"
  /\ call.input.max_age_days = Halves(1)
  /\ \E k \in DOMAIN result.value.entries :
       result.value.entries[k].age_days = Ext(1) /\ result.value.entries[k].is_within_max_age
  /\ \E k \in DOMAIN result.value.entries :
       result.value.entries[k].age_days.inf = 1 /\ ~result.value.entries[k].is_within_max_age

\* C17: in every check_data_freshness result the total of each of the four
\* statuses is the number of returned entries with that evaluated status, so
\* the four totals sum to the number of returned entries; with a status
\* filter the totals of the other statuses are 0.
C17_TotalsCountEntries ==
  call.op = "check_data_freshness" =>
    LET entries == result.value.entries
        counted == result.value.totals
    IN  /\ DOMAIN counted = {"fresh", "warning", "stale", "planned"}
        /\ \A s \in DOMAIN counted :
             counted[s] = Cardinality({k \in DOMAIN entries : entries[k].evaluated_status = <<s>>})
        /\ counted["fresh"] + counted["warning"] + counted["stale"] + counted["planned"]
             = Len(entries)
        /\ ~Falsy(call.input.status) =>
             \A s \in DOMAIN counted : <<s>> # call.input.status => counted[s] = 0

\* Without a filter the four sources are counted under three statuses.
C17_Witness ==
  /\ call.op = "check_data_freshness"
  /\ call.input.status = NULL
  /\ result.value.totals["planned"] = 1
  /\ result.value.totals["stale"] = 1
  /\ result.value.totals["warning"] = 1
  /\ result.value.totals["fresh"] = 1

-----------------------------------------------------------------------------
(* The operations called with blank optional text filters. *)

\* An omitted filter and the blank values it may be given instead.
Blanks == {NULL, <<>>, <<" ">>, <<" ", " ">>}

BlankStore == BigStore(3)

BlankGetSanctionsRegime ==
  /\ call = NoCall
  /\ \E regime_id \in Blanks \cup {Numbered(R1, 2)}, name \in Blanks \cup {<<"n">>},
        jurisdiction \in Blanks \cup {<<"EU">>}, limit \in {Undefined, Halves(4)},
        tie \in Ties :
       Call(getSanctionsRegime, "get_sanctions_regime",
            [NoArguments("get_sanctions_regime") EXCEPT
               !.regime_id = regime_id, !.name = name, !.jurisdiction = jurisdiction,
               !.limit = limit], tie)

BlankSearchSanctionsCaseLaw ==
  /\ call = NoCall
  /\ \E query \in Blanks \cup {<<"a">>}, regime_id \in Blanks \cup {R1},
        court \in Blanks \cup {<<"a">>}, tie \in Ties :
       Call(searchSanctionsCaseLaw, "search_sanctions_case_law",
            [NoArguments("search_sanctions_case_law") EXCEPT
               !.query = query, !.regime_id = regime_id, !.court = court], tie)

BlankGetExportControl ==
  /\ call = NoCall
  /\ \E jurisdiction \in Blanks \cup {<<"EU">>}, section \in Blanks \cup {<<"a">>},
        query \in Blanks \cup {<<"a">>}, tie \in Ties :
       Call(getExportControl, "get_export_control",
            [NoArguments("get_export_control") EXCEPT
               !.jurisdiction = jurisdiction, !.section = section, !.query = query], tie)

BlankGetDelistingProcedure ==
  /\ call = NoCall
  /\ \E procedure_id \in Blanks \cup {Numbered(D1, 2)},
        regime_id \in Blanks \cup {Numbered(R1, 2)}, tie \in Ties :
       Call(getDelistingProcedure, "get_delisting_procedure",
            [NoArguments("get_delisting_procedure") EXCEPT
               !.procedure_id = procedure_id, !.regime_id = regime_id], tie)

BlankCheckCyberSanctions ==
  /\ call = NoCall
  /\ \E jurisdiction \in Blanks \cup {<<"EU">>}, query \in Blanks \cup {<<"a">>},
        tie \in Ties :
       Call(checkCyberSanctions, "check_cyber_sanctions",
            [NoArguments("check_cyber_sanctions") EXCEPT
               !.jurisdiction = jurisdiction, !.query = query], tie)

BlankSearchSanctionsLaw ==
  /\ call = NoCall
  /\ \E regime_id \in Blanks \cup {R1}, tie \in Ties :
       Call(searchSanctionsLaw, "search_sanctions_law",
            [NoArguments("search_sanctions_law") EXCEPT
               !.query = <<"a">>, !.regime_id = regime_id], tie)

NextBlank ==
  \/ BlankGetSanctionsRegime
  \/ BlankSearchSanctionsCaseLaw
  \/ BlankGetExportControl
  \/ BlankGetDelistingProcedure
  \/ BlankCheckCyberSanctions
  \/ BlankSearchSanctionsLaw
  \/ Reply

SpecBlank == InitWith({BlankStore}) /\ [][NextBlank]_vars

\* The optional text filters of the operations.
TextFilters ==
  {"regime_id", "name", "jurisdiction", "query", "court", "section", "procedure_id"}

\* The arguments with every blank optional text filter left out; the query
\* of search_sanctions_law is required and stays.
BlanksOmitted(c) ==
  [f \in DOMAIN c.input |->
     IF /\ f \in TextFilters
        /\ ~(c.op = "search_sanctions_law" /\ f = "query")
        /\ Blank(c.input[f])
     THEN NULL ELSE c.input[f]]

\* The outcome of the call made with its blank filters left out.
WithBlanksOmitted(c) ==
  CASE c.op = "get_sanctions_regime" -> getSanctionsRegime(db, BlanksOmitted(c), c.tie)
    [] c.op = "search_sanctions_case_law" -> searchSanctionsCaseLaw(db, BlanksOmitted(c), c.tie)
    [] c.op = "get_export_control" -> getExportControl(db, BlanksOmitted(c), c.tie)
    [] c.op = "get_delisting_procedure" -> getDelistingProcedure(db, BlanksOmitted(c), c.tie)
    [] c.op = "check_cyber_sanctions" -> checkCyberSanctions(db, BlanksOmitted(c), c.tie)
    [] c.op = "search_sanctions_law" -> searchSanctionsLaw(db, BlanksOmitted(c), c.tie)

\* C18: for every operation and every optional text filter an empty or
\* whitespace-only value gives exactly the result of omitting the filter; so
\* get_sanctions_regime with a blank regime_id returns the regimes it
\* returns without regime_id, under the default limit of 10.
C18_BlankFilterIsOmitted ==
  call # NoCall => result.value = WithBlanksOmitted(call).value


\* The outcome of the lookup made when rows that tie are met in the other
\* order.
LookupAgain(c, tie) ==
  CASE c.op = "get_provision" -> getProvision(db, c.input, tie)
    [] c.op = "get_executive_order" -> getExecutiveOrder(db, c.input, tie)

\* C19: two identical calls on the same store contents return the same rows
\* in the same order, fixed by the explicit ordering keys and not by the
\* order rows are stored in; also for the single row get_executive_order
\* picks when more than one order matches by number or id.
C19_OrderFixedByKeys ==
  call # NoCall => \A tie \in Ties : LookupAgain(call, tie) = result

-----------------------------------------------------------------------------
(* Provisions seeded and fetched back by their key. *)

\* Topic lists of a provision record: none, plain, with an empty string, and
\* with the characters JSON escapes.
RoundTopics ==
  << <<>>, << <<"a">> >>, << <<"a">>, <<"b", " ", "c">> >>, << <<"\"">>, <<"\\", "a">> >>,
     << <<"a", ",", "b">>, <<"[", "]">> >>, << <<>> >>, << <<"a">>, <<>>, <<"b">> >> >>

\* Metadata of a provision record: absent, without members, with members.
RoundMetadata ==
  << NULL, <<>>, << <<<<"k">>, <<"a">>>> >>,
     << <<<<"k">>, <<"\"", "}">>>>, <<<<"n">>, <<>>>> >> >>

\* One record per topic list and metadata, half of them with parent, regime
\* and date; item ids I101, I102, ... under S1.
RoundProvisions ==
  [i \in 1..(Len(RoundTopics) * Len(RoundMetadata)) |->
     LET t == ((i - 1) % Len(RoundTopics)) + 1
         m == ((i - 1) \div Len(RoundTopics)) + 1
     IN  [ProvisionRec(S1, Numbered(I1, i), IF i % 2 = 0 THEN R1 ELSE NULL,
                       <<"a", " ">>, RoundTopics[t])
            EXCEPT !.text = <<" ", "b", "\"">>,
                   !.parent = IF i % 2 = 0 THEN Numbered(I1, 1) ELSE NULL,
                   !.issued_on = i % 3,
                   !.metadata = RoundMetadata[m]]]

RoundStore ==
  seedSanctionsDatabase(EmptyStore,
    [ NoRecords EXCEPT !.sources = <<SourceRec(S1)>>,
                       !.sanctions_regimes = <<RegimeRec(R1, NULL)>>,
                       !.provisions = RoundProvisions ]).db

\* get_provision by the key of a seeded record.
FetchProvision ==
  /\ call = NoCall
  /\ \E i \in DOMAIN RoundProvisions, include_related \in BOOLEAN, pad \in {<<>>, <<" ">>},
        tie \in Ties :
       Call(getProvision, "get_provision",
            [ source_id |-> RoundProvisions[i].source_id \o pad,
              item_id |-> pad \o RoundProvisions[i].item_id,
              include_related |-> include_related ], tie)

SpecRound == InitWith({RoundStore}) /\ [][FetchProvision \/ Reply]_vars

\* The seeded record the call asks for.
Seeded(c) ==
  RoundProvisions[CHOOSE i \in DOMAIN RoundProvisions :
                    /\ RoundProvisions[i].source_id = Trim(c.input.source_id)
                    /\ RoundProvisions[i].item_id = Trim(c.input.item_id)]

\* The fields other than topics come back as seeded, an absent metadata as
\* null.
FieldsComeBack ==
  LET record == Seeded(call)
      value == result.value
  IN  /\ result.error = NULL /\ value.found
      /\ value.source_id = record.source_id /\ value.item_id = record.item_id
      /\ value.title = record.title /\ value.text = record.text
      /\ value.parent = record.parent /\ value.kind = record.kind
      /\ value.regime_id = record.regime_id /\ value.issued_on = record.issued_on
      /\ value.official_url = record.url
      /\ value.metadata = record.metadata

\* C20: every provision record seedSanctionsDatabase accepted comes back from
\* get_provision by its key with title, text, parent, kind, regime_id,
\* issued_on and url unchanged, topics equal to the seeded list, empty
\* strings included, and metadata equal to the seeded object, null when
\* absent.
C20_ProvisionRoundTrip ==
  call.op = "get_provision" =>
    /\ FieldsComeBack
    /\ result.value.topics = Seeded(call).topics

-----------------------------------------------------------------------------
(* parseJsonField and parseJsonArray on well-formed and malformed column    *)
(* text, and get_provision on rows that hold such text.                     *)

\* Well-formed column texts by the type of their value.
ObjectTexts == {JsonStringifyObject(RoundMetadata[i]) : i \in 2..Len(RoundMetadata)}
ArrayTexts == {JsonStringify(RoundTopics[i]) : i \in DOMAIN RoundTopics}
ScalarTexts == {<<"0">>, <<"1", "0">>, JsonQuote(<<>>), JsonQuote(<<"a">>), JsonQuote(<<"[", "]">>)}

\* Malformed texts: an object or array text cut short, numbers with a
\* leading zero or a letter, a bare word.
MalformedTexts ==
  UNION { {SubSeq(text, 1, n) : n \in 1..Min(MaxCutLen, Len(text) - 1)} :
            text \in ObjectTexts \cup ArrayTexts }
    \cup {<<"0", "1">>, <<"1", "a">>, <<"a">>, <<"\"", "a">>, <<"]">>, <<" ">>}

ColumnTexts ==
  {NULL, <<>>} \cup ObjectTexts \cup ArrayTexts \cup ScalarTexts \cup MalformedTexts

\* Metadata a seed record may carry although it is no object.
OtherMetadata == << JsArray(<< <<"a">> >>), JsArray(<<>>), JsNumber(<<"7">>), JsText(<<"a">>),
                    JsNumber(<<"0">>), JsText(<<>>) >>

\* One provision per metadata value, objects and others, under S1.
JsonStore ==
  seedSanctionsDatabase(EmptyStore,
    [ NoRecords EXCEPT
        !.sources = <<SourceRec(S1)>>,
        !.provisions =
          [i \in 1..(Len(RoundMetadata) + Len(OtherMetadata)) |->
             [ProvisionRec(S1, Numbered(I1, i), NULL, <<"a">>, << <<"a">> >>)
                EXCEPT !.metadata = (RoundMetadata \o OtherMetadata)[i]]] ]).db

ParseJsonField ==
  /\ call = NoCall
  /\ \E value \in ColumnTexts :
       /\ call' = [op |-> "parseJsonField", input |-> value, tie |-> "asc"]
       /\ result' = Returned(parseJsonField(value), 0)
  /\ UNCHANGED <<db, seeded>>

ParseJsonArray ==
  /\ call = NoCall
  /\ \E value \in ColumnTexts :
       /\ call' = [op |-> "parseJsonArray", input |-> value, tie |-> "asc"]
       /\ result' = Returned(parseJsonArray(value), 0)
  /\ UNCHANGED <<db, seeded>>

\* get_provision on a row of JsonStore.
FetchStoredJson ==
  /\ call = NoCall
  /\ \E i \in DOMAIN db.provisions, include_related \in BOOLEAN :
       Call(getProvision, "get_provision",
            [ source_id |-> db.provisions[i].source_id, item_id |-> db.provisions[i].item_id,
              include_related |-> include_related ], "asc")

NextJson == ParseJsonField \/ ParseJsonArray \/ FetchStoredJson \/ Reply

SpecJson == InitWith({JsonStore}) /\ [][NextJson]_vars

\* C21: parseJsonField and parseJsonArray never raise.  For an object column
\* a null, empty or malformed text gives null, and so does well-formed text
\* of an array or a scalar; for an array column a null, empty or malformed
\* text and well-formed text of a non-array give the empty list; and
\* get_provision fails on no stored text.
C21_JsonFallback ==
  /\ call # NoCall => result.error = NULL
  /\ call.op = "parseJsonField" =>
       IF call.input \in ObjectTexts
       THEN result.value # NULL /\ JsonStringifyObject(result.value) = call.input
       ELSE result.value = NULL
  /\ call.op = "parseJsonArray" =>
       IF call.input \in ArrayTexts
       THEN \E i \in DOMAIN RoundTopics :
              /\ call.input = JsonStringify(RoundTopics[i])
              /\ result.value = SelectSeq(RoundTopics[i], LAMBDA topic : topic # <<>>)
       ELSE result.value = <<>>
  /\ call.op = "get_provision" =>
       LET stored == db.provisions[CHOOSE i \in DOMAIN db.provisions :
                                     db.provisions[i].item_id = call.input.item_id].metadata
       IN  IF stored \in ObjectTexts
           THEN result.value.metadata # NULL
           ELSE result.value.metadata = NULL

-----------------------------------------------------------------------------
(* list-sources.ts: listSources.                                            *)

SAMPLE_LIMIT == 5

\* Variant: every priority lands in the same tier.
PriorityTierFlat(priority) == 3

\* ORDER BY CASE s.priority WHEN 'critical' THEN 0 WHEN 'high' THEN 1
\*               WHEN 'medium' THEN 2 ELSE 3 END
PriorityTier(priority) ==
  IF priority = <<"critical">> THEN 0
  ELSE IF priority = <<"high">> THEN 1
  ELSE IF priority = <<"medium">> THEN 2
  ELSE 3

\* The summary columns of a sources row joined with its freshness row.
SourceSummary(d, s, sf) ==
  [ id |-> s.id, name |-> s.name, priority |-> s.priority,
    provision_count |-> Cardinality({i \in DOMAIN d.provisions : d.provisions[i].source_id = s.id}),
    regime_count |->
      Cardinality({d.provisions[i].regime_id :
                     i \in {j \in DOMAIN d.provisions :
                              /\ d.provisions[j].source_id = s.id
                              /\ d.provisions[j].regime_id # NULL}}),
    case_law_count |->
      Cardinality({i \in DOMAIN d.sanctions_case_law : d.sanctions_case_law[i].source_id = s.id}),
    freshness_status |-> IF sf = 0 THEN NULL ELSE d.source_freshness[sf].status,
    last_updated |-> IF sf = 0 THEN NULL ELSE d.source_freshness[sf].last_updated ]

\* FROM sources s LEFT JOIN source_freshness sf ON sf.source_id = s.id:
\* one pair <<s, sf>> per matching freshness row, <<s, 0>> when none matches.
SourcesJoinFreshness(d) ==
  LET Matching(s) == {f \in DOMAIN d.source_freshness :
                        d.source_freshness[f].source_id = d.sources[s].id}
      PairsOf(s) == IF Matching(s) = {} THEN << <<s, 0>> >>
                    ELSE [k \in 1..Cardinality(Matching(s)) |-> <<s, Ascending(Matching(s))[k]>>]
  IN  Concat([s \in DOMAIN d.sources |-> PairsOf(s)])

listSources(d, input, tie) ==
  LET joined == SourcesJoinFreshness(d)
      Before(a, b) ==
        LET sa == d.sources[joined[a][1]]
            sb == d.sources[joined[b][1]]
        IN  \/ PriorityTier(sa.priority) < PriorityTier(sb.priority)
            \/ PriorityTier(sa.priority) = PriorityTier(sb.priority) /\ TextLess(sa.id, sb.id)
      order == OrderBy(DOMAIN joined, Before, tie)
      sources == [k \in DOMAIN order |->
                    SourceSummary(d, d.sources[joined[order[k]][1]], joined[order[k]][2])]
  IN  IF Falsy(input.source_id) \/ Trim(input.source_id) = <<>>
      THEN Returned([sources |-> sources, source |-> NULL], 1)
      ELSE
        LET sourceId == Trim(input.source_id)
            detailRows == Limit(OrderBy({k \in DOMAIN joined : d.sources[joined[k][1]].id = sourceId},
                                        LAMBDA a, b : FALSE, tie), 1)
        IN  IF detailRows = <<>>
            THEN Returned([sources |-> sources, source |-> NULL], 2)
            ELSE
              LET s == d.sources[joined[detailRows[1]][1]]
                  p == d.provisions
                  sampleItems ==
                    IF input.include_samples
                    THEN LET rows == Limit(OrderBy({i \in DOMAIN p : p[i].source_id = sourceId},
                                                   LAMBDA i, j : NewestFirst(p, i, j), tie),
                                           SAMPLE_LIMIT)
                         IN  [k \in DOMAIN rows |->
                                [ item_id |-> p[rows[k]].item_id, title |-> p[rows[k]].title,
                                  kind |-> p[rows[k]].kind, official_url |-> p[rows[k]].url ]]
                    ELSE <<>>
              IN  Returned(
                    [ sources |-> sources,
                      source |-> [ summary |-> SourceSummary(d, s, joined[detailRows[1]][2]),
                                   metadata |-> parseJsonField(s.metadata),
                                   sample_items |-> sampleItems ] ],
                    IF input.include_samples THEN 3 ELSE 2)

-----------------------------------------------------------------------------
(* about.ts: about.                                                         *)

\* Variant: the sources are counted among the items.
aboutCountingSources(d, input, tie) ==
  Returned(
    [ stats |-> [ total_items |-> Len(d.sources) + Len(d.provisions) + Len(d.executive_orders)
                                    + Len(d.delisting_procedures) + Len(d.export_controls)
                                    + Len(d.sanctions_case_law),
                  total_sources |-> Len(d.sources),
                  provisions |-> Len(d.provisions),
                  executive_orders |-> Len(d.executive_orders),
                  delisting_procedures |-> Len(d.delisting_procedures),
                  export_controls |-> Len(d.export_controls),
                  sanctions_case_law |-> Len(d.sanctions_case_law),
                  sanctions_regimes |-> Len(d.sanctions_regimes) ],
      data_sources |-> [k \in DOMAIN d.sources |-> [name |-> d.sources[k].name]] ],
    8)

about(d, input, tie) ==
  LET sources == Len(d.sources)
      sanctionsRegimes == Len(d.sanctions_regimes)
      provisions == Len(d.provisions)
      executiveOrders == Len(d.executive_orders)
      delistingProcedures == Len(d.delisting_procedures)
      exportControls == Len(d.export_controls)
      sanctionsCaseLaw == Len(d.sanctions_case_law)
      totalItems == provisions + executiveOrders + delistingProcedures + exportControls
                      + sanctionsCaseLaw
      sourceRows == IF tie = "asc" THEN d.sources ELSE Reverse(d.sources)
  IN  Returned(
        [ stats |-> [ total_items |-> totalItems, total_sources |-> sources,
                      provisions |-> provisions, executive_orders |-> executiveOrders,
                      delisting_procedures |-> delistingProcedures,
                      export_controls |-> exportControls,
                      sanctions_case_law |-> sanctionsCaseLaw,
                      sanctions_regimes |-> sanctionsRegimes ],
          data_sources |-> [k \in DOMAIN sourceRows |-> [name |-> sourceRows[k].name]] ],
        8)

-----------------------------------------------------------------------------
(* list_sources on stores whose sources have every priority.                *)

\* Sources stored per store.
MaxSources == 6

Priorities == << <<"critical">>, <<"high">>, <<"medium">>, <<"low">>, <<"x">> >>

\* Six sources stored newest id first; the priorities rotate with `shift`,
\* so that in some store a source of priority "x" has a smaller id than one
\* of priority "low".  The first source has more provisions than a sample
\* holds, under two regimes.
SourcesStore(shift) ==
  seedSanctionsDatabase(EmptyStore,
    [ NoRecords EXCEPT
        !.sources =
          [k \in 1..MaxSources |->
             LET i == MaxSources + 1 - k
             IN  [SourceRec(Numbered(S1, i)) EXCEPT
                    !.priority = Priorities[((i + shift) % Len(Priorities)) + 1],
                    !.metadata = IF i = 2 THEN << <<<<"k">>, <<"a">>>> >> ELSE NULL]],
        !.sanctions_regimes = <<RegimeRec(R1, NULL), RegimeRec(Numbered(R1, 2), NULL)>>,
        !.provisions =
          [i \in 1..(SAMPLE_LIMIT + 1) |->
             [ProvisionRec(Numbered(S1, 1), Numbered(I1, i),
                           IF i = 1 THEN NULL ELSE IF i = 2 THEN R1 ELSE Numbered(R1, 2),
                           <<"a">>, <<>>)
                EXCEPT !.issued_on = i % 3]]
            \o <<ProvisionRec(Numbered(S1, 2), I1, R1, <<"a">>, <<>>)>>,
        !.sanctions_case_law = <<CaseLawRec(<<"C1">>, Numbered(S1, 2), NULL)>>,
        !.source_freshness =
          << FreshnessRec(Numbered(S1, 3), DateText(2), <<"daily">>, <<"fresh">>),
             FreshnessRec(Numbered(S1, 1), DateText(4), <<"weekly">>, <<"stale">>) >> ]).db

ListSources ==
  /\ call = NoCall
  /\ \E source_id \in {NULL, <<>>, <<" ">>, <<"S9">>, <<" ">> \o Numbered(S1, 2) \o <<" ">>}
                        \cup {Numbered(S1, i) : i \in 1..MaxSources},
        include_samples \in BOOLEAN, tie \in Ties :
       Call(listSources, "list_sources",
            [source_id |-> source_id, include_samples |-> include_samples], tie)

SpecSources ==
  InitWith({SourcesStore(shift) : shift \in 0..(Len(Priorities) - 1)}) /\ [][ListSources \/ Reply]_vars

\* The tier the claim's wording gives a priority: the four names in order,
\* then any other value.
NamedTier(priority) ==
  CASE priority = <<"critical">> -> 0
    [] priority = <<"high">> -> 1
    [] priority = <<"medium">> -> 2
    [] priority = <<"low">> -> 3
    [] OTHER -> 4

\* The tier with "low" and every other value together.
MergedTier(priority) ==
  CASE priority = <<"critical">> -> 0
    [] priority = <<"high">> -> 1
    [] priority = <<"medium">> -> 2
    [] OTHER -> 3

\* One summary per stored source, with the source's own counts, ordered by
\* Tier and then by id.
SourcesListed(Tier(_)) ==
  LET listed == result.value.sources
  IN  /\ result.error = NULL
      /\ Len(listed) = Len(db.sources)
      /\ \A s \in Rows(db.sources) :
           Cardinality({k \in DOMAIN listed : listed[k].id = s.id}) = 1
      /\ \A k \in DOMAIN listed :
           /\ \E s \in Rows(db.sources) :
                listed[k].id = s.id /\ listed[k].name = s.name /\ listed[k].priority = s.priority
           /\ listed[k].provision_count =
                Len(SelectSeq(db.provisions, LAMBDA p : p.source_id = listed[k].id))
           /\ listed[k].case_law_count =
                Len(SelectSeq(db.sanctions_case_law, LAMBDA c : c.source_id = listed[k].id))
      /\ \A k \in 1..(Len(listed) - 1) :
           \/ Tier(listed[k].priority) < Tier(listed[k + 1].priority)
           \/ /\ Tier(listed[k].priority) = Tier(listed[k + 1].priority)
              /\ TextLess(listed[k].id, listed[k + 1].id)

\* C22: list_sources returns, for every input, one summary per stored source
\* ordered critical, high, medium, low, then any other priority, and by id
\* within a tier.
C22_SourcesByNamedTier ==
  call.op = "list_sources" => SourcesListed(NamedTier)

\* C22 as amended: "low" and every priority outside critical, high, medium
\* form one tier, ordered by id.
C22_SourcesByMergedTier ==
  call.op = "list_sources" => SourcesListed(MergedTier)

\* A detail view with samples was returned from a store where a source of
\* another priority is listed before a source of priority "low".
C22_Witness ==
  /\ call.op = "list_sources"
  /\ call.input.source_id = Numbered(S1, 2)
  /\ call.input.include_samples
  /\ result.queries = 3
  /\ \E k \in DOMAIN result.value.sources :
       /\ k < Len(result.value.sources)
       /\ result.value.sources[k].priority = <<"x">>
       /\ result.value.sources[k + 1].priority = <<"low">>

-----------------------------------------------------------------------------
(* about on a store built from a fresh schema and one seed.                 *)

InitAbout ==
  /\ db = EmptyStore
  /\ call = NoCall
  /\ result = NoResult
  /\ seeded = FALSE

\* about is called on the store the seed left; the call keeps the seed and
\* whether it was committed.
About ==
  /\ seeded
  /\ call.op = "seedSanctionsDatabase"
  /\ \E tie \in Ties :
       /\ call' = [op |-> "about", input |-> call.input, loaded |-> result.ok, tie |-> tie]
       /\ result' = about(db, NULL, tie)
  /\ UNCHANGED <<db, seeded>>

NextAbout == CreateSchema \/ Seed \/ About

SpecAbout == InitAbout /\ [][NextAbout]_vars

\* C23: after a seed is loaded into a fresh schema, about reports for every
\* entity table the number of records the seed has, which is what
\* summarizeSeed gives, and total_items is the sum of provisions, executive
\* orders, delisting procedures, export controls and case law.
C23_AboutCountsSeed ==
  (call.op = "about" /\ call.loaded) =>
    LET seed == call.input
        stats == result.value.stats
        summary == summarizeSeed(seed)
    IN  /\ result.error = NULL
        /\ stats.total_sources = Len(seed.sources)
        /\ stats.sanctions_regimes = Len(seed.sanctions_regimes)
        /\ stats.provisions = Len(seed.provisions)
        /\ stats.executive_orders = Len(seed.executive_orders)
        /\ stats.delisting_procedures = Len(seed.delisting_procedures)
        /\ stats.export_controls = Len(seed.export_controls)
        /\ stats.sanctions_case_law = Len(seed.sanctions_case_law)
        /\ stats.total_sources = summary.sources
        /\ stats.sanctions_regimes = summary.sanctions_regimes
        /\ stats.provisions = summary.provisions
        /\ stats.executive_orders = summary.executive_orders
        /\ stats.delisting_procedures = summary.delisting_procedures
        /\ stats.export_controls = summary.export_controls
        /\ stats.sanctions_case_law = summary.sanctions_case_law
        /\ stats.total_items =
             Len(seed.provisions) + Len(seed.executive_orders)
               + Len(seed.delisting_procedures) + Len(seed.export_controls)
               + Len(seed.sanctions_case_law)
        /\ Len(result.value.data_sources) = Len(seed.sources)

\* about was called after a committed seed holding a source and two items.
C23_Witness ==
  /\ call.op = "about"
  /\ call.loaded
  /\ result.value.stats.total_sources >= 1
  /\ result.value.stats.total_items = 2
  /\ result.value.stats.sanctions_regimes = 0

-----------------------------------------------------------------------------
(* The filters of get_sanctions_regime, get_delisting_procedure,            *)
(* get_export_control and search_sanctions_case_law.                        *)

\* Names, sections and courts stored: one holds "x" where another holds "_",
\* one is a letter outside ASCII.
FilterTexts == << <<"a", "x", "c">>, <<"a", "_", "c">>, <<"É">>, <<"B">> >>

FilterJurisdictions == << <<"EU">>, <<"US">>, <<"EU">>, <<"UK">> >>

\* Four regimes, two of them with a delisting procedure, four export
\* controls and four cases; two cases share a decision date.
FilterStore ==
  seedSanctionsDatabase(EmptyStore,
    [ NoRecords EXCEPT
        !.sources = <<SourceRec(S1)>>,
        !.sanctions_regimes =
          [i \in DOMAIN FilterTexts |->
             [RegimeRec(Numbered(R1, i), NULL) EXCEPT
                !.name = FilterTexts[i], !.jurisdiction = FilterJurisdictions[i]]],
        !.delisting_procedures =
          << DelistingProcedureRec(Numbered(D1, 1), Numbered(R1, 2)),
             DelistingProcedureRec(Numbered(D1, 2), Numbered(R1, 1)) >>,
        !.export_controls =
          [i \in DOMAIN FilterTexts |->
             [ExportControlRec(Numbered(<<"X1">>, i), S1) EXCEPT
                !.jurisdiction = FilterJurisdictions[i], !.section = FilterTexts[i],
                !.title = <<"b">>, !.summary = <<"b">>,
                !.focus = FilterTexts[Len(FilterTexts) + 1 - i]]],
        !.sanctions_case_law =
          [i \in DOMAIN FilterTexts |->
             [CaseLawRec(Numbered(<<"C1">>, i), S1, IF i = 3 THEN NULL ELSE Numbered(R1, (i % 2) + 1))
                EXCEPT !.court = FilterTexts[i], !.decision_date = (i * 2) % 5,
                       !.delisting_related = (i % 2 = 1),
                       !.case_reference = <<"b">>, !.title = <<"b">>, !.summary = <<"b">>,
                       !.keywords = << FilterTexts[Len(FilterTexts) + 1 - i] >>]] ]).db

\* Text filters asked: a plain letter in either case, a text with a LIKE
\* wildcard, a letter outside ASCII in either case, and a padded one.
FilterNeedles ==
  { NULL, <<"a">>, <<"C">>, <<" ", "b">>, <<"a", "_", "c">>, <<"%">>, <<"É">>, <<"é">> }

FilterLimits == {Undefined, Halves(2), Halves(6)}

FilterGetSanctionsRegime ==
  /\ call = NoCall
  /\ \E regime_id \in {NULL, Numbered(R1, 2), <<"R9">>}, name \in FilterNeedles,
        jurisdiction \in {NULL, <<"EU">>, <<" ", "US">>}, limit \in FilterLimits, tie \in Ties :
       Call(getSanctionsRegime, "get_sanctions_regime",
            [NoArguments("get_sanctions_regime") EXCEPT
               !.regime_id = regime_id, !.name = name, !.jurisdiction = jurisdiction,
               !.limit = limit], tie)

FilterGetDelistingProcedure ==
  /\ call = NoCall
  /\ \E procedure_id \in {NULL, Numbered(D1, 1), <<"D9">>},
        regime_id \in {NULL, Numbered(R1, 1), Numbered(R1, 3)}, limit \in FilterLimits,
        tie \in Ties :
       Call(getDelistingProcedure, "get_delisting_procedure",
            [NoArguments("get_delisting_procedure") EXCEPT
               !.procedure_id = procedure_id, !.regime_id = regime_id, !.limit = limit], tie)

FilterGetExportControl ==
  /\ call = NoCall
  /\ \E jurisdiction \in {NULL, <<"EU">>}, section \in FilterNeedles, query \in FilterNeedles,
        limit \in FilterLimits, tie \in Ties :
       Call(getExportControl, "get_export_control",
            [NoArguments("get_export_control") EXCEPT
               !.jurisdiction = jurisdiction, !.section = section, !.query = query,
               !.limit = limit], tie)

FilterSearchSanctionsCaseLaw ==
  /\ call = NoCall
  /\ \E query \in FilterNeedles, regime_id \in {NULL, Numbered(R1, 2)},
        court \in FilterNeedles, delisting_related \in {NULL, <<"true">>, <<"false">>},
        limit \in FilterLimits, tie \in Ties :
       Call(searchSanctionsCaseLaw, "search_sanctions_case_law",
            [NoArguments("search_sanctions_case_law") EXCEPT
               !.query = query, !.regime_id = regime_id, !.court = court,
               !.delisting_related = delisting_related, !.limit = limit], tie)

NextFilter ==
  \/ FilterGetSanctionsRegime
  \/ FilterGetDelistingProcedure
  \/ FilterGetExportControl
  \/ FilterSearchSanctionsCaseLaw
  \/ Reply

SpecFilter == InitWith({FilterStore}) /\ [][NextFilter]_vars

\* The filter is absent, or the stored value is the one asked for.
IsExactly(asked, stored) == HasText(asked) => stored = Trim(asked)

\* The filter is absent, or one of the stored values holds the text asked
\* for, letters compared regardless of case.
HoldsText(asked, stored) ==
  HasText(asked) =>
    \E text \in stored : IsSubstring(toLowerCase(Trim(asked)), toLowerCase(text))

\* The rows of the operation's table that satisfy every supplied filter.
RowsAsked(c) ==
  CASE c.op = "get_sanctions_regime" ->
         { r \in Rows(db.sanctions_regimes) :
             /\ IsExactly(c.input.regime_id, r.id)
             /\ IsExactly(c.input.jurisdiction, r.jurisdiction)
             /\ HoldsText(c.input.name, {r.name}) }
    [] c.op = "get_delisting_procedure" ->
         { p \in Rows(db.delisting_procedures) :
             /\ IsExactly(c.input.procedure_id, p.id)
             /\ IsExactly(c.input.regime_id, p.regime_id) }
    [] c.op = "get_export_control" ->
         { x \in Rows(db.export_controls) :
             /\ IsExactly(c.input.jurisdiction, x.jurisdiction)
             /\ HoldsText(c.input.section, {x.section})
             /\ HoldsText(c.input.query, {x.title, x.summary, x.focus}) }
    [] c.op = "search_sanctions_case_law" ->
         { x \in Rows(db.sanctions_case_law) :
             /\ IsExactly(c.input.regime_id, x.regime_id)
             /\ HoldsText(c.input.court, {x.court})
             /\ HoldsText(c.input.query, {x.case_reference, x.title, x.summary, x.keywords})
             /\ c.input.delisting_related = <<"true">> => x.delisting_related = 1
             /\ c.input.delisting_related = <<"false">> => x.delisting_related = 0 }

FilterOperations ==
  { "get_sanctions_regime", "get_delisting_procedure", "get_export_control",
    "search_sanctions_case_law" }

\* C24: in get_sanctions_regime, get_delisting_procedure, get_export_control
\* and search_sanctions_case_law every returned row satisfies all supplied
\* filters (ids and jurisdiction exactly; name, section, court and free text
\* as a case-insensitive substring), every stored row that satisfies them is
\* returned unless the limit cuts the list, delisting_related returns only
\* rows with that flag, and cases come newest decision first.
C24_FiltersSelectRows ==
  call.op \in FilterOperations =>
    LET asked == {r.id : r \in RowsAsked(call)}
        returned == {result.value[k].id : k \in DOMAIN result.value}
        cap == normalizeLimit(call.input.limit,
                              IF call.op = "get_sanctions_regime" /\ ~Falsy(call.input.regime_id)
                              THEN 1 ELSE 10)
    IN  /\ result.error = NULL
        /\ returned \subseteq asked
        /\ Cardinality(returned) = Len(result.value)
        /\ Len(result.value) < cap => asked \subseteq returned
        /\ call.op = "search_sanctions_case_law" =>
             /\ \A k \in DOMAIN result.value :
                  /\ call.input.delisting_related = <<"true">> =>
                       result.value[k].delisting_related
                  /\ call.input.delisting_related = <<"false">> =>
                       ~result.value[k].delisting_related
             /\ \A k \in 1..(Len(result.value) - 1) :
                  result.value[k].decision_date >= result.value[k + 1].decision_date

-----------------------------------------------------------------------------
(* A session: the eleven operations called one after another on one store.  *)

\* callTool: the operation named is run on the store with the arguments.
callTool(d, name, args, tie, today) ==
  CASE name = "search_sanctions_law"      -> searchSanctionsLaw(d, args, tie)
    [] name = "get_provision"             -> getProvision(d, args, tie)
    [] name = "get_sanctions_regime"      -> getSanctionsRegime(d, args, tie)
    [] name = "get_executive_order"       -> getExecutiveOrder(d, args, tie)
    [] name = "check_cyber_sanctions"     -> checkCyberSanctions(d, args, tie)
    [] name = "get_delisting_procedure"   -> getDelistingProcedure(d, args, tie)
    [] name = "get_export_control"        -> getExportControl(d, args, tie)
    [] name = "search_sanctions_case_law" -> searchSanctionsCaseLaw(d, args, tie)
    [] name = "list_sources"              -> listSources(d, args, tie)
    [] name = "about"                     -> about(d, args, tie)
    [] name = "check_data_freshness"      -> checkDataFreshness(d, args, today)
    [] OTHER -> Thrown(<<"Unknown tool">>, 0)

ToolNames ==
  { "search_sanctions_law", "get_provision", "get_sanctions_regime", "get_executive_order",
    "check_cyber_sanctions", "get_delisting_procedure", "get_export_control",
    "search_sanctions_case_law", "list_sources", "about", "check_data_freshness" }

\* Variant: check_data_freshness clears the rows it has reported.
StoreAfterCallClearing(d, name) ==
  IF name = "check_data_freshness" THEN [d EXCEPT !.source_freshness = <<>>] ELSE d

\* The store after a tool has run: every statement the tools prepare is a
\* SELECT and the handle is opened read-only, so it is the store before.
StoreAfterCall(d, name) == d

\* Arguments a session passes to each tool: none, and one or two filters.
SessionArguments(name) ==
  CASE name = "search_sanctions_law" ->
         { [NoArguments(name) EXCEPT !.query = q] : q \in {NULL, <<"a">>, <<"b">>} }
    [] name = "get_provision" ->
         { [NoArguments(name) EXCEPT !.source_id = S1, !.item_id = i, !.include_related = r] :
             i \in {I1, <<"I2">>, <<"I9">>}, r \in BOOLEAN }
    [] name = "get_sanctions_regime" ->
         { [NoArguments(name) EXCEPT !.regime_id = id, !.include_provisions = p] :
             id \in {NULL, R1}, p \in BOOLEAN }
    [] name = "get_executive_order" ->
         { [NoArguments(name) EXCEPT !.order_number = n, !.include_related_provisions = p] :
             n \in {NULL, <<"1">>}, p \in BOOLEAN }
    [] name = "check_cyber_sanctions" ->
         { [NoArguments(name) EXCEPT !.jurisdiction = j] : j \in {NULL, <<"EU">>, <<"US">>} }
    [] name = "get_delisting_procedure" ->
         { [NoArguments(name) EXCEPT !.regime_id = id] : id \in {NULL, R1} }
    [] name = "get_export_control" ->
         { [NoArguments(name) EXCEPT !.query = q] : q \in {NULL, <<"a">>} }
    [] name = "search_sanctions_case_law" ->
         { [NoArguments(name) EXCEPT !.delisting_related = f] :
             f \in {NULL, <<"true">>, <<"false">>} }
    [] name = "list_sources" ->
         { [source_id |-> id, include_samples |-> s] : id \in {NULL, S1, S2}, s \in BOOLEAN }
    [] name = "about" -> { NULL }
    [] name = "check_data_freshness" ->
         { [NoArguments(name) EXCEPT !.status = s] : s \in {NULL, <<"fresh">>, <<"stale">>} }

\* The store of a session: the search store with a procedure, an export
\* control, a case and freshness rows added.
SessionStore ==
  seedSanctionsDatabase(EmptyStore,
    [ NoRecords EXCEPT
        !.sources = <<SourceRec(S1), SourceRec(S2)>>,
        !.sanctions_regimes = <<RegimeRec(R1, D1)>>,
        !.provisions =
          << ProvisionRec(S1, I1, R1, <<"b">>, << <<"cyber">> >>),
             ProvisionRec(S1, <<"I2">>, R1, <<"a">>, << <<"cyber">> >>),
             ProvisionRec(S2, I1, NULL, <<"a">>, <<>>) >>,
        !.executive_orders = <<ExecutiveOrderRec(<<"E1">>, S1, R1)>>,
        !.delisting_procedures = <<DelistingProcedureRec(D1, R1)>>,
        !.export_controls = <<ExportControlRec(<<"X1">>, S2)>>,
        !.sanctions_case_law = <<CaseLawRec(<<"C1">>, S1, R1)>>,
        !.source_freshness =
          << FreshnessRec(S2, GarbageDate, <<"daily">>, <<"stale">>),
             FreshnessRec(S1, DateText(4), <<"daily">>, <<"fresh">>) >> ]).db

\* One request: the handler runs callTool on the open handle and replies.
\* Calls follow one another without the store being reopened.
CallTool ==
  \E name \in ToolNames :
    \E args \in SessionArguments(name), tie \in Ties, today \in {DateText(4), DateText(200)} :
      /\ call' = [op |-> name, input |-> args, tie |-> tie, today |-> today]
      /\ result' = callTool(db, name, args, tie, today)
      /\ db' = StoreAfterCall(db, name)
      /\ UNCHANGED seeded

SpecSession == InitWith({SessionStore}) /\ [][CallTool]_vars

-----------------------------------------------------------------------------
(* Storage handles: the HTTP handler of api/mcp.ts and the build script.    *)
(* `call` holds the request or run in progress and its position, `result`   *)
(* the handles the process holds open and what the run has produced.        *)

\* Handles a serving process may hold open before no further request is
\* taken up.
MaxOpenHandles == 2

Idle == [op |-> "idle", pc |-> "none"]

Holding(open, reply, writes) == [open |-> open, reply |-> reply, writes |-> writes]

InitHandles ==
  /\ db \in PriorStores \cup {SessionStore}
  /\ call = Idle
  /\ result = Holding(0, NULL, 0)
  /\ seeded = FALSE

\* Where server.connect and transport.handleRequest can fail.
HttpFailures == {"none", "connect", "handleRequest"}

\* A request arrives; an OPTIONS request is answered 204 at once.
HttpRequest ==
  /\ call = Idle
  /\ result.open < MaxOpenHandles
  /\ \E method \in {"OPTIONS", "POST"}, name \in ToolNames \cup {"unknown_tool"},
        failure \in HttpFailures, tie \in Ties :
       \E args \in IF name \in ToolNames THEN SessionArguments(name) ELSE {NULL} :
         call' = [op |-> "http", pc |-> IF method = "OPTIONS" THEN "returned" ELSE "getWasmDb",
                  method |-> method, name |-> name, input |-> args, tie |-> tie,
                  failure |-> failure, today |-> DateText(4), held |-> result.open]
  /\ result' = Holding(result.open, NULL, 0)
  /\ UNCHANGED <<db, seeded>>

\* const wasmDb = getWasmDb(): a read-only handle on the store.
HttpGetWasmDb ==
  /\ call.op = "http" /\ call.pc = "getWasmDb"
  /\ call' = [call EXCEPT !.pc = "connect"]
  /\ result' = [result EXCEPT !.open = @ + 1]
  /\ UNCHANGED <<db, seeded>>

\* await server.connect(transport): returns, or throws out of the handler.
HttpConnect ==
  /\ call.op = "http" /\ call.pc = "connect"
  /\ call' = [call EXCEPT !.pc = IF call.failure = "connect" THEN "thrown" ELSE "handleRequest"]
  /\ UNCHANGED <<db, result, seeded>>

\* await transport.handleRequest(req, res): runs the tool handler, which
\* turns an error of the tool into an isError reply; or throws itself.
HttpHandleRequest ==
  /\ call.op = "http" /\ call.pc = "handleRequest"
  /\ IF call.failure = "handleRequest"
     THEN /\ call' = [call EXCEPT !.pc = "thrown"]
          /\ UNCHANGED result
     ELSE /\ call' = [call EXCEPT !.pc = "close"]
          /\ result' = [result EXCEPT
                          !.reply = callTool(db, call.name, call.input, call.tie, call.today)]
  /\ UNCHANGED <<db, seeded>>

\* wasmDb.close(), the last statement of the handler.
HttpClose ==
  /\ call.op = "http" /\ call.pc = "close"
  /\ call' = [call EXCEPT !.pc = "returned"]
  /\ result' = [result EXCEPT !.open = @ - 1]
  /\ UNCHANGED <<db, seeded>>

\* The handler has returned or thrown; the instance waits for a request.
HttpDone ==
  /\ call.op = "http" /\ call.pc \in {"returned", "thrown"}
  /\ call' = Idle
  /\ result' = Holding(result.open, NULL, 0)
  /\ UNCHANGED <<db, seeded>>

NextHttp ==
  \/ HttpRequest
  \/ HttpGetWasmDb
  \/ HttpConnect
  \/ HttpHandleRequest
  \/ HttpClose
  \/ HttpDone

-----------------------------------------------------------------------------
(* build-db.ts: loadSeed, validateSeed and main.                            *)

\* A seed file: absent, unreadable, no JSON, or a JSON value.  `arrays` are
\* the properties of the value that are arrays, `seed` the records they hold.
SeedFile(kind, arrays, schema_version, generated_on, seed) ==
  [ kind |-> kind, arrays |-> arrays, schema_version |-> schema_version,
    generated_on |-> generated_on, seed |-> seed ]

requiredArrays == SeedOrder

Rejected(message) == [ok |-> FALSE, error |-> message, seed |-> NoRecords]
Accepted(seed) == [ok |-> TRUE, error |-> NULL, seed |-> seed]

\* Variant: schema_version and generated_on are not looked at.
validateSeedArraysOnly(value) ==
  IF value.kind \notin {"object", "array"}
  THEN Rejected(<<"Seed file must be a JSON object">>)
  ELSE IF \E k \in DOMAIN requiredArrays : requiredArrays[k] \notin value.arrays
  THEN Rejected(<<"Seed is missing required array">>)
  ELSE Accepted(value.seed)

validateSeed(value) ==
  IF value.kind \notin {"object", "array"}
  THEN Rejected(<<"Seed file must be a JSON object">>)
  ELSE IF \E k \in DOMAIN requiredArrays : requiredArrays[k] \notin value.arrays
  THEN Rejected(<<"Seed is missing required array">>)
  ELSE IF value.schema_version # "string" \/ value.generated_on # "string"
  THEN Rejected(<<"Seed must include schema_version and generated_on strings">>)
  ELSE Accepted(value.seed)

\* The seed built into the package, used when the seed file does not exist.
DEFAULT_SANCTIONS_SEED ==
  [ NoRecords EXCEPT
      !.sources = <<SourceRec(S1), SourceRec(S2)>>,
      !.sanctions_regimes = <<RegimeRec(R1, D1)>>,
      !.provisions = <<ProvisionRec(S1, I1, R1, <<"a">>, <<>>)>>,
      !.delisting_procedures = <<DelistingProcedureRec(D1, R1)>> ]

loadSeed(file) ==
  CASE file.kind = "absent" -> Accepted(DEFAULT_SANCTIONS_SEED)
    [] file.kind = "unreadable" -> Rejected(<<"EACCES">>)
    [] file.kind = "unparseable" -> Rejected(<<"SyntaxError">>)
    [] OTHER -> validateSeed(file)

\* Seeds a seed file may hold: of up to MaxPriorRecords records, some of
\* which the schema refuses.
FileSeeds == {SeedOf(c) : c \in SeedCollections(1, MaxPriorRecords)}

AllArrays == {requiredArrays[k] : k \in DOMAIN requiredArrays}

SeedFiles ==
  { SeedFile(kind, {}, "missing", "missing", NoRecords) :
      kind \in {"absent", "unreadable", "unparseable", "null", "string", "number", "array"} }
    \cup { SeedFile("object", AllArrays \ missing, schema_version, generated_on, NoRecords) :
             missing \in {{requiredArrays[k]} : k \in DOMAIN requiredArrays} \cup {AllArrays},
             schema_version \in {"string", "missing"}, generated_on \in {"string", "number"} }
    \cup { SeedFile("object", AllArrays, schema_version, generated_on, seed) :
             schema_version \in {"string", "number", "missing"},
             generated_on \in {"string", "number", "missing"},
             seed \in FileSeeds }

\* The script is started on a seed file; the database file may hold an
\* earlier build.
BuildStart ==
  /\ call = Idle
  /\ result.open = 0
  /\ \E file \in SeedFiles :
       call' = [op |-> "build-db", pc |-> "loadSeed", file |-> file, before |-> db,
                held |-> 0]
  /\ result' = Holding(0, NULL, 0)
  /\ UNCHANGED <<db, seeded>>

\* const seed = await loadSeed(seedPath): a rejection leaves main.
BuildLoadSeed ==
  /\ call.op = "build-db" /\ call.pc = "loadSeed"
  /\ LET loaded == loadSeed(call.file)
     IN  /\ call' = [call EXCEPT !.pc = IF loaded.ok THEN "open" ELSE "exit"]
         /\ result' = [result EXCEPT !.reply = loaded]
  /\ UNCHANGED <<db, seeded>>

\* const db = new BetterSqlite3(dbPath); db.pragma('foreign_keys = ON')
BuildOpen ==
  /\ call.op = "build-db" /\ call.pc = "open"
  /\ call' = [call EXCEPT !.pc = "createSanctionsSchema"]
  /\ result' = [result EXCEPT !.open = @ + 1]
  /\ UNCHANGED <<db, seeded>>

\* try { createSanctionsSchema(db): succeeds, or throws with nothing changed.
BuildCreateSchema ==
  /\ call.op = "build-db" /\ call.pc = "createSanctionsSchema"
  /\ \E thrown \in BOOLEAN :
       IF thrown
       THEN /\ call' = [call EXCEPT !.pc = "finally"]
            /\ result' = [result EXCEPT !.reply = Rejected(<<"SqliteError">>)]
            /\ UNCHANGED db
       ELSE /\ call' = [call EXCEPT !.pc = "seedSanctionsDatabase"]
            /\ result' = [result EXCEPT !.writes = @ + 1]
            /\ db' = createSanctionsSchema(db)
  /\ UNCHANGED seeded

\* seedSanctionsDatabase(db, seed): commits, or rolls back and throws.
BuildSeed ==
  /\ call.op = "build-db" /\ call.pc = "seedSanctionsDatabase"
  /\ LET r == seedSanctionsDatabase(db, result.reply.seed)
     IN  /\ db' = r.db
         /\ result' = [result EXCEPT
                         !.writes = @ + 1,
                         !.reply = IF r.ok THEN @ ELSE Rejected(<<"SqliteError">>)]
  /\ call' = [call EXCEPT !.pc = "finally"]
  /\ UNCHANGED seeded

\* } finally { db.close() }
BuildFinally ==
  /\ call.op = "build-db" /\ call.pc = "finally"
  /\ call' = [call EXCEPT !.pc = IF result.reply.ok THEN "summary" ELSE "exit"]
  /\ result' = [result EXCEPT !.open = @ - 1]
  /\ UNCHANGED <<db, seeded>>

\* The summary is printed, or main().catch reports the error and exits
\* with status 1; the process ends.
BuildDone ==
  /\ call.op = "build-db" /\ call.pc \in {"summary", "exit"}
  /\ call' = Idle
  /\ result' = Holding(0, NULL, 0)
  /\ UNCHANGED <<db, seeded>>

NextBuild ==
  \/ BuildStart
  \/ BuildLoadSeed
  \/ BuildOpen
  \/ BuildCreateSchema
  \/ BuildSeed
  \/ BuildFinally
  \/ BuildDone

SpecBuild == InitHandles /\ [][NextBuild]_vars

SpecHandles == InitHandles /\ [][NextHttp \/ NextBuild]_vars

\* The request or run has finished: the handler returned or threw, main
\* printed its summary or left through its catch.
Finished == call.op \in {"http", "build-db"} /\ call.pc \in {"returned", "thrown", "summary", "exit"}

\* C26: every storage handle opened for a request or a build is closed by
\* the time it finishes, on every path: the request completes, the tool
\* fails, connect or handleRequest throws, schema creation or seeding fails.
C26_HandlesClosed ==
  Finished => result.open = call.held

\* The part of C26 about the build script alone.
BuildHandleClosed ==
  (call.op = "build-db" /\ Finished) => result.open = 0

\* What the claim has rejected: a document that is no object, lacks one of
\* the eight arrays, or lacks a string schema_version or generated_on.
MustReject(file) ==
  /\ file.kind \notin {"absent", "unreadable", "unparseable"}
  /\ \/ file.kind # "object"
     \/ AllArrays \ file.arrays # {}
     \/ file.schema_version # "string"
     \/ file.generated_on # "string"

\* C27: build-db rejects a seed document that is not an object, lacks one of
\* the eight required arrays, or lacks a string schema_version or
\* generated_on, with an error and before any write: the database is not
\* opened, the schema not dropped, no row inserted.
C27_InvalidSeedRejected ==
  (call.op = "build-db" /\ MustReject(call.file)) =>
    /\ call.pc \in {"loadSeed", "exit"}
    /\ result.open = 0
    /\ result.writes = 0
    /\ db = call.before
    /\ call.pc = "exit" => (~result.reply.ok /\ result.reply.error # NULL)

\* A document with every array but a numeric schema_version was rejected
\* while the database file held an earlier build.
C27_Witness ==
  /\ call.op = "build-db"
  /\ call.pc = "exit"
  /\ call.file.kind = "object"
  /\ call.file.arrays = AllArrays
  /\ call.file.schema_version = "number"
  /\ call.file.generated_on = "string"
  /\ Len(call.file.seed.sources) > 0
  /\ Len(db.sources) > 0
  /\ ~result.reply.ok

-----------------------------------------------------------------------------
(* The size of the lists the eleven operations return, on stores with up   *)
(* to MaxRows rows in every table.                                          *)

\* n sources, each with a freshness row, and n rows in every other table.
WideStore(n) ==
  seedSanctionsDatabase(EmptyStore,
    [ NoRecords EXCEPT
        !.sources = [i \in 1..n |-> SourceRec(Numbered(S1, i))],
        !.sanctions_regimes = [i \in 1..n |-> RegimeRec(Numbered(R1, i), NULL)],
        !.provisions =
          [i \in 1..n |->
             ProvisionRec(Numbered(S1, 1), Numbered(I1, i), Numbered(R1, 1), <<"a">>,
                          << <<"cyber">> >>)],
        !.executive_orders =
          [i \in 1..n |-> ExecutiveOrderRec(Numbered(<<"E1">>, i), Numbered(S1, 1), NULL)],
        !.delisting_procedures =
          [i \in 1..n |-> DelistingProcedureRec(Numbered(D1, i), Numbered(R1, i))],
        !.export_controls =
          [i \in 1..n |-> ExportControlRec(Numbered(<<"X1">>, i), Numbered(S1, 1))],
        !.sanctions_case_law =
          [i \in 1..n |-> CaseLawRec(Numbered(<<"C1">>, i), Numbered(S1, 1), NULL)],
        !.source_freshness =
          [i \in 1..n |->
             FreshnessRec(Numbered(S1, i), DateText(4), <<"daily">>, <<"fresh">>)] ]).db

\* Arguments that ask each operation for as much as it gives.
WideArguments(name) ==
  CASE name = "search_sanctions_law" ->
         { [NoArguments(name) EXCEPT !.query = <<"a">>, !.limit = l] :
             l \in {Undefined, Halves(4 * MAX_LIMIT)} }
    [] name \in LimitTaking ->
         { [NoArguments(name) EXCEPT !.limit = l] : l \in {Undefined, Halves(4 * MAX_LIMIT)} }
    [] name = "get_provision" ->
         { [ source_id |-> Numbered(S1, 1), item_id |-> Numbered(I1, 1), include_related |-> r ] :
             r \in BOOLEAN }
    [] name = "get_executive_order" ->
         { [ order_number |-> <<"1">>, include_related_provisions |-> r ] : r \in BOOLEAN }
    [] name = "list_sources" ->
         { [source_id |-> id, include_samples |-> s] :
             id \in {NULL, Numbered(S1, 1)}, s \in BOOLEAN }
    [] name = "about" -> { NULL }
    [] name = "check_data_freshness" ->
         { [NoArguments(name) EXCEPT !.status = s] :
             s \in {NULL, <<"fresh">>, <<"stale">>} }

WideCall ==
  /\ call = NoCall
  /\ \E name \in ToolNames :
       \E args \in WideArguments(name), tie \in Ties :
         /\ call' = [op |-> name, input |-> args, tie |-> tie, today |-> DateText(4)]
         /\ result' = callTool(db, name, args, tie, DateText(4))
  /\ UNCHANGED <<db, seeded>>

SpecWide ==
  InitWith({WideStore(n) : n \in {1, MAX_LIMIT, MaxRows - 1, MaxRows}}) /\ [][WideCall \/ Reply]_vars

\* The lists of records in the result of a call.
ListsReturned(c, r) ==
  CASE c.op = "check_cyber_sanctions" ->
         {r.value.regimes, r.value.executive_orders, r.value.provisions}
    [] c.op \in LimitTaking -> {r.value}
    [] c.op = "get_provision" -> {r.value.related}
    [] c.op = "get_executive_order" -> {r.value.related_provisions}
    [] c.op = "list_sources" ->
         {r.value.sources} \cup (IF r.queries = 1 THEN {} ELSE {r.value.source.sample_items})
    [] c.op = "about" -> {r.value.data_sources}
    [] c.op = "check_data_freshness" -> {r.value.entries}

\* C28: for each of the eleven operations no returned list holds more than
\* MAX_LIMIT records, the sources of list_sources, the data_sources of about
\* and the entries of check_data_freshness included.
C28_ListsWithinCap ==
  call.op \in ToolNames =>
    \A list \in ListsReturned(call, result) : Len(list) <= MAX_LIMIT

-----------------------------------------------------------------------------
(* ingest-fetch.ts: requestText.  `call` holds the position in the loop and *)
(* what each attempt met, `result` the timers pending and the outcome.      *)

\* for (let attempt = 0; attempt < 3; attempt += 1)
MaxAttempts == 3

\* What an attempt can meet: a body, a status that is not ok, a network
\* error, the timeout aborting the fetch, or the body failing to arrive.
Bodies == {<<"a">>, <<"b">>}

AttemptOutcomes ==
  { [kind |-> "body", text |-> b] : b \in Bodies }
    \cup { [kind |-> "error", text |-> e] :
             e \in {<<"HTTP 404">>, <<"HTTP 500">>, <<"fetch failed">>, <<"AbortError">>,
                    <<"terminated">>} }

Requesting(timers, lastError, value, error) ==
  [timers |-> timers, lastError |-> lastError, value |-> value, error |-> error]

\* Variant: the timer is left pending.
clearTimeoutNever(timers, timeout) == timers

\* clearTimeout(timeout): the timer is no longer pending, fired or not.
clearTimeout(timers, timeout) == timers \ {timeout}

\* The script has no request in flight and no store open.
InitRequest ==
  /\ db = EmptyStore
  /\ call = Idle
  /\ result = Holding(0, NULL, 0)
  /\ seeded = FALSE

RequestStart ==
  /\ call = Idle
  /\ call' = [op |-> "requestText", pc |-> "for", attempt |-> 0, history |-> <<>>]
  /\ result' = Requesting({}, NULL, NULL, NULL)
  /\ UNCHANGED <<db, seeded>>

\* The loop head and the first two statements of the body: a controller and
\* its timer; after the last attempt the loop is left for the throw.
RequestSetTimeout ==
  /\ call.op = "requestText" /\ call.pc = "for"
  /\ IF call.attempt < MaxAttempts
     THEN /\ call' = [call EXCEPT !.pc = "fetch"]
          /\ result' = [result EXCEPT !.timers = @ \cup {call.attempt}]
     ELSE /\ call' = [call EXCEPT !.pc = "throw"]
          /\ UNCHANGED result
  /\ UNCHANGED <<db, seeded>>

\* try { fetch, the ok test, response.text() } catch { lastError = error }:
\* the attempt ends with a body to return or with an error kept.  The
\* timeout aborting the fetch has fired its timer.
RequestFetch ==
  /\ call.op = "requestText" /\ call.pc = "fetch"
  /\ \E outcome \in AttemptOutcomes :
       /\ call' = [call EXCEPT !.pc = "finally", !.history = Append(@, outcome)]
       /\ result' =
            IF outcome.kind = "body"
            THEN [result EXCEPT !.value = outcome.text]
            ELSE [result EXCEPT
                    !.lastError = outcome.text,
                    !.timers = IF outcome.text = <<"AbortError">>
                               THEN @ \ {call.attempt} ELSE @]
  /\ UNCHANGED <<db, seeded>>

\* finally { clearTimeout(timeout) }, then the return takes effect or the
\* loop goes on.
RequestFinally ==
  /\ call.op = "requestText" /\ call.pc = "finally"
  /\ result' = [result EXCEPT !.timers = clearTimeout(@, call.attempt)]
  /\ call' = IF result.value # NULL
             THEN [call EXCEPT !.pc = "returned"]
             ELSE [call EXCEPT !.pc = "for", !.attempt = @ + 1]
  /\ UNCHANGED <<db, seeded>>

\* throw new Error(`request failed for ${url}: ${String(lastError)}`)
RequestThrow ==
  /\ call.op = "requestText" /\ call.pc = "throw"
  /\ call' = [call EXCEPT !.pc = "thrown"]
  /\ result' = [result EXCEPT !.error = <<"request failed: ">> \o result.lastError]
  /\ UNCHANGED <<db, seeded>>

\* The caller has the body or the error.
RequestDone ==
  /\ call.op = "requestText" /\ call.pc \in {"returned", "thrown"}
  /\ call' = Idle
  /\ result' = Holding(0, NULL, 0)
  /\ UNCHANGED <<db, seeded>>

NextRequest ==
  \/ RequestStart
  \/ RequestSetTimeout
  \/ RequestFetch
  \/ RequestFinally
  \/ RequestThrow
  \/ RequestDone

SpecRequest == InitRequest /\ [][NextRequest]_vars

\* C29: requestText makes at most 3 fetch attempts, one after another; it
\* returns the body of the first attempt that succeeds; it throws only
\* after exactly 3 failures in a row, reporting the last error; and the
\* timer of an attempt is cleared before the next attempt starts or the
\* call ends.
C29_ThreeAttempts ==
  call.op = "requestText" =>
    LET met == call.history
        Failed(k) == met[k].kind = "error"
    IN  /\ Len(met) <= 3
        /\ \A k \in 1..(Len(met) - 1) : Failed(k)
        /\ result.timers \subseteq {call.attempt}
        /\ call.pc \in {"for", "throw", "returned", "thrown"} => result.timers = {}
        /\ call.pc = "fetch" => Len(met) = call.attempt
        /\ call.pc = "returned" =>
             /\ met # <<>>
             /\ met[Len(met)].kind = "body"
             /\ result.value = met[Len(met)].text
             /\ result.error = NULL
        /\ call.pc = "thrown" =>
             /\ Len(met) = 3
             /\ \A k \in 1..3 : Failed(k)
             /\ result.error = <<"request failed: ">> \o met[3].text
             /\ result.value = NULL

\* The third attempt returned a body after a timeout and a bad status.
C29_Witness ==
  /\ call.op = "requestText"
  /\ call.pc = "returned"
  /\ Len(call.history) = 3
  /\ call.history[1].text = <<"AbortError">>
  /\ call.history[2].text = <<"HTTP 500">>
  /\ result.value = <<"b">>
  /\ result.timers = {}

-----------------------------------------------------------------------------
(* ingest-fetch.ts: filterSeedBySource.                                     *)

\* array.filter(keep)
Filter(records, Keep(_)) == SelectSeq(records, Keep)

filterSeedBySource(seed, sourceId) ==
  IF \A k \in DOMAIN seed.sources : seed.sources[k].id # sourceId
  THEN [ok |-> FALSE, error |-> <<"Unknown source id">>, seed |-> NoRecords]
  ELSE
    LET source == seed.sources[CHOOSE k \in DOMAIN seed.sources :
                                 /\ seed.sources[k].id = sourceId
                                 /\ \A j \in 1..(k - 1) : seed.sources[j].id # sourceId]
        provisions == Filter(seed.provisions, LAMBDA record : record.source_id = sourceId)
        executiveOrders == Filter(seed.executive_orders, LAMBDA record : record.source_id = sourceId)
        exportControls == Filter(seed.export_controls, LAMBDA record : record.source_id = sourceId)
        caseLaw == Filter(seed.sanctions_case_law, LAMBDA record : record.source_id = sourceId)
        regimeIds ==
          {record.regime_id : record \in Rows(provisions) \cup Rows(executiveOrders) \cup Rows(caseLaw)}
            \ {NULL, <<>>}
        regimes == Filter(seed.sanctions_regimes, LAMBDA regime : regime.id \in regimeIds)
        delistingIds == {regime.delisting_procedure_id : regime \in Rows(regimes)} \ {NULL, <<>>}
        delistingProcedures ==
          Filter(seed.delisting_procedures,
                 LAMBDA procedure : procedure.id \in delistingIds \/ procedure.regime_id \in regimeIds)
        freshness == Filter(seed.source_freshness, LAMBDA record : record.source_id = sourceId)
    IN  [ ok |-> TRUE, error |-> NULL,
          seed |-> [ sources |-> <<source>>,
                     sanctions_regimes |-> regimes,
                     provisions |-> provisions,
                     executive_orders |-> executiveOrders,
                     delisting_procedures |-> delistingProcedures,
                     export_controls |-> exportControls,
                     sanctions_case_law |-> caseLaw,
                     source_freshness |-> freshness ] ]

R2 == Numbered(R1, 2)

\* Merged seeds of two sources and two regimes: every record may sit under
\* either regime or none, and a regime may name the one delisting
\* procedure, which belongs to either regime.
MergedSeeds ==
  { [ NoRecords EXCEPT
        !.sources = <<SourceRec(S1), SourceRec(S2)>>,
        !.sanctions_regimes = <<RegimeRec(R1, p1), RegimeRec(R2, p2)>>,
        !.provisions = << ProvisionRec(S1, I1, g1, <<"a">>, <<>>),
                          ProvisionRec(S2, I1, g2, <<"a">>, <<>>) >>,
        !.executive_orders = <<ExecutiveOrderRec(<<"E1">>, S1, g3)>>,
        !.delisting_procedures = IF d = NULL THEN <<>> ELSE <<DelistingProcedureRec(D1, d)>>,
        !.export_controls = <<ExportControlRec(<<"X1">>, S2)>>,
        !.sanctions_case_law = <<CaseLawRec(<<"C1">>, S2, g4)>>,
        !.source_freshness =
          << FreshnessRec(S1, DateText(0), <<"daily">>, <<"fresh">>),
             FreshnessRec(S2, DateText(0), <<"daily">>, <<"fresh">>) >> ] :
      p1 \in {NULL, D1}, p2 \in {NULL, D1}, d \in {NULL, R1, R2},
      g1 \in {NULL, R1, R2}, g2 \in {NULL, R1, R2}, g3 \in {NULL, R1}, g4 \in {NULL, R2} }

\* buildSeed with a source id: the merged seed is cut down to one source.
FilterSeedBySource ==
  /\ call = Idle
  /\ \E seed \in MergedSeeds, sourceId \in {S1, S2, <<"S9">>} :
       /\ call' = [op |-> "filterSeedBySource", pc |-> "returned", input |-> seed,
                   sourceId |-> sourceId]
       /\ result' = filterSeedBySource(seed, sourceId)
  /\ UNCHANGED <<db, seeded>>

FilterSeedDone ==
  /\ call.op = "filterSeedBySource"
  /\ call' = Idle
  /\ result' = Holding(0, NULL, 0)
  /\ UNCHANGED <<db, seeded>>

SpecSlice == InitRequest /\ [][FilterSeedBySource \/ FilterSeedDone]_vars

Ids(records) == {records[k].id : k \in DOMAIN records}

\* Every reference of one record of the seed to another resolves.
Intact(seed) ==
  /\ \A t \in {"provisions", "executive_orders", "export_controls", "sanctions_case_law",
               "source_freshness"} :
       \A k \in DOMAIN seed[t] : seed[t][k].source_id \in Ids(seed.sources)
  /\ \A t \in {"provisions", "executive_orders", "sanctions_case_law", "delisting_procedures"} :
       \A k \in DOMAIN seed[t] : seed[t][k].regime_id \in Ids(seed.sanctions_regimes) \cup {NULL}
  /\ \A k \in DOMAIN seed.sanctions_regimes :
       seed.sanctions_regimes[k].delisting_procedure_id
         \in Ids(seed.delisting_procedures) \cup {NULL}

\* C30: for a referentially intact seed and a source id it holds,
\* filterSeedBySource returns an intact seed that loads: it keeps only that
\* source and its records, every regime a kept provision, executive order,
\* case or delisting procedure refers to is kept, and every kept freshness
\* row is the source's; an unknown source id raises an error.
C30_FilteredSeedIntact ==
  (call.op = "filterSeedBySource" /\ Intact(call.input)) =>
    IF call.sourceId \in Ids(call.input.sources)
    THEN LET kept == result.seed
         IN  /\ result.ok
             /\ Ids(kept.sources) = {call.sourceId}
             /\ \A t \in {"provisions", "executive_orders", "export_controls",
                          "sanctions_case_law", "source_freshness"} :
                  /\ \A k \in DOMAIN kept[t] : kept[t][k].source_id = call.sourceId
                  /\ kept[t] = SelectSeq(call.input[t], LAMBDA r : r.source_id = call.sourceId)
             /\ Intact(kept)
             /\ seedSanctionsDatabase(EmptyStore, kept).ok
    ELSE ~result.ok /\ result.error # NULL

=============================================================================
